---- MODULE Spec2Model ----
(***************************************************************************)
(* Maya -> Houdini interchange scripts of the LEGO pipeline.               *)
(*                                                                         *)
(* The module holds one state machine per script (or pair of scripts that  *)
(* exchange a file).  Every specification starts the scripts it does not   *)
(* run in their idle state and never moves them.                           *)
(*                                                                         *)
(* Strings are sequences of one-character strings.  Numbers are integers   *)
(* counting hundredths (the value 5.0 is 500), so that the cm -> m factor  *)
(* 0.01 is the exact ratio UNIT_SCALE / SCALE_DEN.                         *)
(***************************************************************************)
EXTENDS Integers, Sequences, FiniteSets, TLC

VARIABLES
    \* maya_meta_export.py + houdiniImporMedaDane.py (path matching)
    all_meshes,      \* cmds.ls(type="mesh", long=True)
    meshes,          \* out["meshes"]: the records written to <scene>_geometry.json
    rec_map,         \* normalised path -> index of the record in meshes
    prim,            \* the primitive handed to _rec_for: its three path attributes
    matched,         \* what _rec_for returned: an index into meshes, 0 for None
    pcMatch,
    \* mayaExport.py (helpers part) + houiniImportHelper.py
    scene,           \* objects_for_json with the helpers found under each
    helpers_json,    \* content of <base>_helpers.json, NoFile while absent
    points,          \* the points of the Python SOP's geometry
    iPts,            \* index of the next entry of helpers_data
    pcPts,
    \* maya_export_extension.py
    roots,           \* number of top-level transforms of the opened scene
    selected,        \* whether cmds.ls(sl=True) is non-empty
    calls,           \* the calls made so far, each <<what, outcome>>
    iCopy,           \* loop index i of copy_with_retry
    pcExt,
    \* mayaExport.py: export_final_workflow
    base_file_path,  \* argument
    export_all,      \* argument
    dir_exists,      \* os.path.exists(output_dir)
    assemblies,      \* number of top-level objects that are not default cameras
    selection,       \* "original" or "source": what is selected in Maya
    nSelected,       \* number of objects of the original selection
    files,           \* the files written so far
    steps,           \* the exporter and writer calls so far, <<what, outcome>>
    pcFin,
    \* import_helpers_to_houdini.py: import_helpers
    json_text,       \* content of the JSON file
    data,            \* the loaded list; its matrices are the lists handed
                     \* to matrix_list_to_hou_matrix4
    unit_scale,      \* argument, in hundredths (0.01 is 1)
    nodes,           \* the nodes under the root, by their path of names
    okIdx,           \* indices of the entries that reached created += 1
    iImp,            \* index of the next entry
    pcImp,
    \* houdiniImporMedaDane.py (the whole Python SOP)
    json_file,       \* content of the file of parm json_file, NoFile if absent
    input_geo,       \* the geometry the node received (kept for reference)
    records,         \* data.get("meshes", [])
    rec_of,          \* rec_map of this run: normalised path -> index in records
    attribs,         \* the primitive attributes of geo: name -> type and size
    prims,           \* geo.prims(): the path attributes and the attribute values
    applied,         \* counter of line 157
    iPrim,           \* index of the next primitive
    pcMeta,
    all_transforms,   \* cmds.ls(type='transform', long=True) of the scene
    scene_opens,   \* whether cmds.file(..., open=True) succeeds
    unreadable,   \* the nodes a query of which raises
    roots_left,   \* the roots the outer loop has not reached
    pending,   \* the helpers of the current root not yet reached
    seen,
    helper_data,   \* data of main
    out_json,   \* the content of <scene>_helpers.json, NoFile before it is written
    pcHlp,
    abc_scene,   \* the transforms of the opened scene
    root_args,   \* args.root: None or the list of the --root values
    fault,   \* the call that raises in this run, if any
    out_is_file,   \* args.outputBasePath ends with .abc
    abc_roots,   \* roots of main
    discovery_used,   \* discover_helper_roots was called
    abc_export_log,   \* the calls of cmds.AbcExport and how they ended
    main_returned,   \* <<>> or the value main returned
    pcAbc,
    geo_assemblies,   \* cmds.ls(assemblies=True, long=True) of the opened scene
    geo_selection,   \* cmds.ls(sl=True, long=True, type='transform')
    geo_fault,   \* the call that raises in this run, if any
    geo_roots,   \* roots of export_alembic
    geo_export_log,   \* the calls of cmds.AbcExport and how they ended
    exit_status,   \* <<>> or the status the process ended with
    pcGeo,
    norm_in,   \* the argument p of _norm
    norm_out,   \* _norm(p)
    norm_again,   \* _norm(_norm(p))
    pcNorm,
    parse_in,   \* the argument val of _parse_matrix16
    parse_out,   \* what the call gave: a tuple, None or an exception
    pcParse

varsMatch == <<all_meshes, meshes, rec_map, prim, matched, pcMatch>>
varsPts == <<scene, helpers_json, points, iPts, pcPts>>
varsExt == <<roots, selected, calls, iCopy, pcExt>>
varsFin == <<base_file_path, export_all, dir_exists, assemblies, selection,
             nSelected, files, steps, pcFin>>

varsImp == <<json_text, data, unit_scale, nodes, okIdx, iImp, pcImp>>

varsMeta == <<json_file, input_geo, records, rec_of, attribs, prims, applied, iPrim, pcMeta>>

varsHlp == <<all_transforms, scene_opens, unreadable, roots_left, pending, seen, helper_data, out_json, pcHlp>>

varsAbc == <<abc_scene, root_args, fault, out_is_file, abc_roots, discovery_used, abc_export_log, main_returned, pcAbc>>

varsGeo == <<geo_assemblies, geo_selection, geo_fault, geo_roots, geo_export_log, exit_status, pcGeo>>

varsNorm == <<norm_in, norm_out, norm_again, pcNorm>>

varsParse == <<parse_in, parse_out, pcParse>>

vars == <<varsMatch, varsPts, varsExt, varsFin, varsImp, varsMeta, varsHlp, varsAbc, varsGeo, varsNorm, varsParse>>

\* a step of one script leaves the other scripts alone
OnlyHlp == UNCHANGED <<varsMatch, varsPts, varsExt, varsFin, varsImp, varsMeta, varsAbc, varsGeo, varsNorm, varsParse>>
OnlyAbc == UNCHANGED <<varsMatch, varsPts, varsExt, varsFin, varsImp, varsMeta, varsHlp, varsGeo, varsNorm, varsParse>>
OnlyGeo == UNCHANGED <<varsMatch, varsPts, varsExt, varsFin, varsImp, varsMeta, varsHlp, varsAbc, varsNorm, varsParse>>
OnlyNorm == UNCHANGED <<varsMatch, varsPts, varsExt, varsFin, varsImp, varsMeta, varsHlp, varsAbc, varsGeo, varsParse>>
OnlyParse == UNCHANGED <<varsMatch, varsPts, varsExt, varsFin, varsImp, varsMeta, varsHlp, varsAbc, varsGeo, varsNorm>>
OnlyMatch == UNCHANGED <<varsPts, varsExt, varsFin, varsImp, varsMeta, varsHlp, varsAbc, varsGeo, varsNorm, varsParse>>
OnlyPts == UNCHANGED <<varsMatch, varsExt, varsFin, varsImp, varsMeta, varsHlp, varsAbc, varsGeo, varsNorm, varsParse>>
OnlyExt == UNCHANGED <<varsMatch, varsPts, varsFin, varsImp, varsMeta, varsHlp, varsAbc, varsGeo, varsNorm, varsParse>>
OnlyFin == UNCHANGED <<varsMatch, varsPts, varsExt, varsImp, varsMeta, varsHlp, varsAbc, varsGeo, varsNorm, varsParse>>
OnlyMeta == UNCHANGED <<varsMatch, varsPts, varsExt, varsFin, varsImp, varsHlp, varsAbc, varsGeo, varsNorm, varsParse>>
OnlyImp == UNCHANGED <<varsMatch, varsPts, varsExt, varsFin, varsMeta, varsHlp, varsAbc, varsGeo, varsNorm, varsParse>>

(***************************************************************************)
(* Bounds                                                                  *)
(***************************************************************************)
MaxMeshes == 2
MaxObjs == 2
MaxHelpers == 2
MaxRoots == 2
MaxEntries == 2
MaxPrims == 2
MaxPathLen == 4
MaxTransforms == 4

(***************************************************************************)
(* Python str operations                                                   *)
(***************************************************************************)
RECURSIVE SplitFrom(_, _, _, _)
\* str.split(sep) for a one-character sep: the parts, empty ones included
SplitFrom(s, sep, i, cur) ==
    IF i > Len(s) THEN <<cur>>
    ELSE IF s[i] = sep THEN <<cur>> \o SplitFrom(s, sep, i + 1, <<>>)
    ELSE SplitFrom(s, sep, i + 1, Append(cur, s[i]))

Split(s, sep) == SplitFrom(s, sep, 1, <<>>)

RECURSIVE Join(_, _)
\* sep.join(parts)
Join(parts, sep) ==
    IF parts = <<>> THEN <<>>
    ELSE IF Len(parts) = 1 THEN parts[1]
    ELSE parts[1] \o <<sep>> \o Join(Tail(parts), sep)

\* [p for p in parts if p]
NonEmptyParts(parts) == SelectSeq(parts, LAMBDA p : p # <<>>)

\* p.replace(old, new) for one-character old and new
ReplaceChar(p, old, new) == [i \in 1..Len(p) |-> IF p[i] = old THEN new ELSE p[i]]

RECURSIVE ReplaceDoubleFrom(_, _)
\* p.replace("//", "/"): one left-to-right pass over non-overlapping matches
ReplaceDoubleFrom(p, i) ==
    IF i > Len(p) THEN <<>>
    ELSE IF i < Len(p) /\ p[i] = "/" /\ p[i + 1] = "/"
         THEN <<"/">> \o ReplaceDoubleFrom(p, i + 2)
    ELSE <<p[i]>> \o ReplaceDoubleFrom(p, i + 1)

ReplaceDouble(p) == ReplaceDoubleFrom(p, 1)

\* "//" in p
HasDouble(p) == \E i \in 1..(Len(p) - 1) : p[i] = "/" /\ p[i + 1] = "/"

RECURSIVE CollapseDoubles(_)
\* while "//" in p: p = p.replace("//", "/")
CollapseDoubles(p) == IF HasDouble(p) THEN CollapseDoubles(ReplaceDouble(p)) ELSE p

RECURSIVE RStrip(_, _)
\* p.rstrip(c)
RStrip(p, c) ==
    IF p # <<>> /\ p[Len(p)] = c THEN RStrip(SubSeq(p, 1, Len(p) - 1), c) ELSE p

\* Python None where a string is expected
None == <<"None">>

(***************************************************************************)
(* houdiniImporMedaDane.py: _norm                                          *)
(***************************************************************************)
NormNoStrip(p) ==
    IF p = None \/ p = <<>> THEN <<>>
    ELSE CollapseDoubles(ReplaceChar(p, "|", "/"))

\* one p.replace("//", "/") instead of the while loop
norm_single_pass(p) ==
    IF p = None \/ p = <<>> THEN <<>>
    ELSE RStrip(ReplaceDouble(ReplaceChar(p, "|", "/")), "/")

_norm(p) ==
    IF p = None \/ p = <<>> THEN <<>>
    ELSE RStrip(CollapseDoubles(ReplaceChar(p, "|", "/")), "/")

(***************************************************************************)
(* maya_meta_export.py                                                     *)
(***************************************************************************)
_dag_to_unix_path(dag) ==
    <<"/">> \o Join(NonEmptyParts(Split(dag, "|")), "/") \o <<"/">>

\* cmds.listRelatives(shape, parent=True, fullPath=True)[0]: the long name of
\* the parent is the long name of the node without its last segment
ParentDag(dag) ==
    LET parts == NonEmptyParts(Split(dag, "|"))
    IN  <<"|">> \o Join(SubSeq(parts, 1, Len(parts) - 1), "|")

\* the mesh_entry of one shape (the keys the importer matches on)
mesh_entry(shape) ==
    [transformPathUnix |-> _dag_to_unix_path(ParentDag(shape)),
     shapePathUnix     |-> _dag_to_unix_path(shape)]

\* Long names of the mesh shapes a scene may hold.  |a|a and |a|b are two
\* shapes under the one transform |a (a mesh and its Orig shape); |b|a|a
\* sits under the nested transform |b|a.
MeshDags == { <<"|", "a", "|", "a">>, <<"|", "a", "|", "b">>,
              <<"|", "b", "|", "a", "|", "a">> }

\* cmds.ls lists every mesh once, in an order the script does not control
MeshLists ==
    { s \in UNION { [1..n -> MeshDags] : n \in 1..MaxMeshes } :
        \A i, j \in 1..Len(s) : i # j => s[i] # s[j] }

\* main(), lines 74-106: one record per mesh, in cmds.ls order
MetaExport ==
    /\ OnlyMatch
    /\ pcMatch = "export"
    /\ meshes' = [i \in 1..Len(all_meshes) |-> mesh_entry(all_meshes[i])]
    /\ pcMatch' = "map"
    /\ UNCHANGED <<all_meshes, rec_map, prim, matched>>

(***************************************************************************)
(* houdiniImporMedaDane.py: rec_map and _rec_for                           *)
(***************************************************************************)
NoAttr == <<"NoAttr">>    \* geo.findPrimAttrib(name) found nothing

\* rec.get(k, "") for the keys a record of maya_meta_export holds
RecGet(rec, k) ==
    CASE k = "transformPathUnix" -> rec.transformPathUnix
      [] k = "shapePathUnix"     -> rec.shapePathUnix
      [] OTHER                   -> <<>>

RecKeys == <<"path", "transformPathUnix", "shapePathUnix">>

RECURSIVE MapRecord(_, _, _, _)
\* for k in (...): p = _norm(rec.get(k, "")); if p: rec_map[p] = rec
MapRecord(m, recs, i, k) ==
    IF k > Len(RecKeys) THEN m
    ELSE LET p == _norm(RecGet(recs[i], RecKeys[k]))
         IN  MapRecord(IF p # <<>> THEN (p :> i) @@ m ELSE m, recs, i, k + 1)

RECURSIVE MapRecords(_, _, _)
\* for rec in records: ...
MapRecords(m, recs, i) ==
    IF i > Len(recs) THEN m ELSE MapRecords(MapRecord(m, recs, i, 1), recs, i + 1)

EmptyMap == [p \in {} |-> 0]

BuildRecMap(recs) == MapRecords(EmptyMap, recs, 1)

RECURSIVE RecForFrom(_, _, _)
\* for a in (pathA, shapeA, xformA): if not a: continue; ...
RecForFrom(m, pr, a) ==
    IF a > Len(pr) THEN 0
    ELSE IF pr[a] = NoAttr THEN RecForFrom(m, pr, a + 1)
    ELSE IF _norm(pr[a]) \in DOMAIN m THEN m[_norm(pr[a])]
    ELSE RecForFrom(m, pr, a + 1)

\* _rec_for(prim): pr = <<path, shape_path, xform_path>>
_rec_for(m, pr) == RecForFrom(m, pr, 1)

LoadRecords ==
    /\ OnlyMatch
    /\ pcMatch = "map"
    /\ rec_map' = BuildRecMap(meshes)
    /\ pcMatch' = "lookup"
    /\ UNCHANGED <<all_meshes, meshes, prim, matched>>

\* The spellings of a DAG path a primitive attribute may hold: '|' or '/'
\* separators, with or without a trailing separator
Spellings(dag) ==
    { dag, dag \o <<"|">>, ReplaceChar(dag, "|", "/"),
      ReplaceChar(dag, "|", "/") \o <<"/">> }

\* the nodes of the scene: every mesh shape and its transform
SceneNodes == { all_meshes[i] : i \in 1..Len(all_meshes) }
              \cup { ParentDag(all_meshes[i]) : i \in 1..Len(all_meshes) }

ForeignDag == <<"|", "b">>

AttrValues ==
    {NoAttr} \cup Spellings(ForeignDag) \cup UNION { Spellings(d) : d \in SceneNodes }

Lookup ==
    /\ OnlyMatch
    /\ pcMatch = "lookup"
    /\ \E p \in AttrValues, s \in AttrValues, x \in AttrValues :
         /\ prim' = <<p, s, x>>
         /\ matched' = _rec_for(rec_map, <<p, s, x>>)
    /\ pcMatch' = "done"
    /\ UNCHANGED <<all_meshes, meshes, rec_map>>

StartMatch ==
    /\ all_meshes \in MeshLists
    /\ meshes = <<>>
    /\ rec_map = EmptyMap
    /\ prim = <<NoAttr, NoAttr, NoAttr>>
    /\ matched = 0
    /\ pcMatch = "export"

IdleMatch ==
    /\ all_meshes = <<>>
    /\ meshes = <<>>
    /\ rec_map = EmptyMap
    /\ prim = <<NoAttr, NoAttr, NoAttr>>
    /\ matched = 0
    /\ pcMatch = "idle"

(***************************************************************************)
(* JSON values and matrices                                                *)
(***************************************************************************)
JNull == [t |-> "null"]
JMissing == [t |-> "missing"]          \* dict.get(key) of an absent key
JNum(n) == [t |-> "num", v |-> n]
JList(s) == [t |-> "list", v |-> s]

IsNum(j) == j.t = "num"
IsList(j) == j.t = "list"

\* a tuple of numbers as the JSON list of them
NumList(tup) == JList([i \in 1..Len(tup) |-> JNum(tup[i])])

\* m[0:4], m[4:8], m[8:12], m[12:16] as a JSON list of rows
RowsOf(m) == JList([r \in 1..4 |-> NumList(SubSeq(m, 4 * r - 3, 4 * r))])

\* Python truth value of a JSON value
Truthy(j) ==
    CASE j.t = "null"    -> FALSE
      [] j.t = "missing" -> FALSE
      [] j.t = "num"     -> j.v # 0
      [] j.t = "list"    -> j.v # <<>>
      [] OTHER           -> TRUE

\* 1.0 in hundredths
One == 100

identity_matrix ==
    <<One, 0, 0, 0,  0, One, 0, 0,  0, 0, One, 0,  0, 0, 0, One>>

\* what cmds.xform(node, q=True, m=True, ws=True) returns for a node moved
\* to t: a flat list of 16 numbers, the translation in elements 12..14
Translated(t) ==
    <<One, 0, 0, 0,  0, One, 0, 0,  0, 0, One, 0,  t[1], t[2], t[3], One>>

\* a matrix whose 16 entries all differ
Counting == [i \in 1..16 |-> i * One]

WorldMatrices == { Translated(<<500, 600, 700>>), Counting, identity_matrix }

(***************************************************************************)
(* mayaExport.py: the helper entries of export_final_workflow              *)
(***************************************************************************)
\* helper.split('|')[-1]
LastSegment(dag) == LET parts == Split(dag, "|") IN parts[Len(parts)]

\* lines 130-135; helper_matrix is what cmds.xform returned
helper_instance(parent_shape_path, helper, helper_matrix) ==
    [path      |-> parent_shape_path,
     type      |-> LastSegment(helper),
     hasMesh   |-> TRUE,
     transform |-> NumList(helper_matrix)]

RECURSIVE HelpersOf(_, _, _)
\* for helper in helpers: try: ... except: warning   (lines 125-138)
HelpersOf(parent_shape_path, helpers, k) ==
    IF k > Len(helpers) THEN <<>>
    ELSE LET h == helpers[k]
         IN  (IF h.xformOk
              THEN <<helper_instance(parent_shape_path, h.dag, h.matrix)>>
              ELSE <<>>)
             \o HelpersOf(parent_shape_path, helpers, k + 1)

RECURSIVE ExportHelpers(_, _)
\* for obj in objects_for_json: ...   (lines 92-140, helpers part)
ExportHelpers(objs, i) ==
    IF i > Len(objs) THEN <<>>
    ELSE LET o == objs[i]
         IN  (IF o.helpers # <<>> /\ o.shape # <<>>
              THEN HelpersOf(ReplaceChar(o.shape, "|", "/"), o.helpers, 1)
              ELSE <<>>)     \* no helpers, or no shape: continue
             \o ExportHelpers(objs, i + 1)

\* A helper under <obj>|connectivity; xformOk is FALSE when cmds.xform raises
Helper(obj, name, m, ok) ==
    [dag |-> obj \o <<"|", "c", "|">> \o name, matrix |-> m, xformOk |-> ok]

ObjA == <<"|", "a">>
ObjB == <<"|", "b">>

\* The objects a scene may hold: its shape (<<>> for none) and the helpers
\* under its connectivity child
SceneObjects ==
    { [obj |-> ObjA, shape |-> ObjA \o <<"|", "s">>,
       helpers |-> <<Helper(ObjA, <<"h">>, m, TRUE)>>] : m \in WorldMatrices }
    \cup
    { [obj |-> ObjA, shape |-> <<>>,
       helpers |-> <<Helper(ObjA, <<"h">>, Counting, TRUE)>>],
      [obj |-> ObjB, shape |-> ObjB \o <<"|", "s">>, helpers |-> <<>>],
      [obj |-> ObjB, shape |-> ObjB \o <<"|", "s">>,
       helpers |-> <<Helper(ObjB, <<"h">>, Counting, FALSE),
                     Helper(ObjB, <<"k">>, Translated(<<500, 600, 700>>), TRUE)>>] }

Scenes ==
    { s \in UNION { [1..n -> SceneObjects] : n \in 1..MaxObjs } :
        \A i, j \in 1..Len(s) : i # j => s[i].obj # s[j].obj }

NoFile == [t |-> "nofile"]

\* export_final_workflow, lines 81-159: collect the helpers, write the file
ExportFinalHelpers ==
    /\ OnlyPts
    /\ pcPts = "maya"
    /\ helpers_json' = JList(ExportHelpers(scene, 1))
    /\ pcPts' = "houdini"
    /\ UNCHANGED <<scene, points, iPts>>

(***************************************************************************)
(* houiniImportHelper.py                                                   *)
(***************************************************************************)
Origin == <<0, 0, 0>>

\* geo.createPoint() with the attribute defaults of lines 27-31
NewPoint ==
    [P |-> Origin, path |-> <<>>, type |-> <<>>, hasMesh |-> 0,
     transform |-> identity_matrix]

KeepPoints(pts) == pts

\* geo.clear()
ClearGeo(pts) == <<>>

RECURSIVE Concat(_, _)
Concat(lists, k) ==
    IF k > Len(lists) THEN <<>> ELSE lists[k].v \o Concat(lists, k + 1)

\* [item for sublist in matrix_list_of_lists for item in sublist] followed by
\* hou.Matrix4(flat): the 16 numbers, or Raised when an element of the list
\* is not iterable or the flat list is not 16 numbers
Raised == [ok |-> FALSE]

ToMatrix4(m) ==
    IF ~IsList(m) \/ \E k \in 1..Len(m.v) : ~IsList(m.v[k]) THEN Raised
    ELSE LET flat == Concat(m.v, 1)
         IN  IF Len(flat) = 16 /\ \A k \in 1..16 : IsNum(flat[k])
             THEN [ok |-> TRUE, M |-> [k \in 1..16 |-> flat[k].v]]
             ELSE Raised

\* hou.Matrix4.extractTranslates(): row 3, columns 0..2
extractTranslates(M) == <<M[13], M[14], M[15]>>

\* the body of "for helper in helpers_data" (lines 36-51)
ImportedPoint(helper) ==
    LET pt == [NewPoint EXCEPT !.path = helper.path, !.type = helper.type,
                               !.hasMesh = IF helper.hasMesh THEN 1 ELSE 0]
        r  == ToMatrix4(helper.transform)
    IN  IF Truthy(helper.transform) /\ r.ok
        THEN [pt EXCEPT !.P = extractTranslates(r.M), !.transform = r.M]
        ELSE pt

\* lines 7-31: clear the geometry, read the file, add the attributes
StartImport ==
    /\ OnlyPts
    /\ pcPts = "houdini"
    /\ points' = ClearGeo(points)
    /\ iPts' = 1
    /\ pcPts' = IF IsList(helpers_json) THEN "loop" ELSE "error"
    /\ UNCHANGED <<scene, helpers_json>>

ImportHelper ==
    /\ OnlyPts
    /\ pcPts = "loop"
    /\ iPts <= Len(helpers_json.v)
    /\ points' = Append(points, ImportedPoint(helpers_json.v[iPts]))
    /\ iPts' = iPts + 1
    /\ UNCHANGED <<scene, helpers_json, pcPts>>

FinishImport ==
    /\ OnlyPts
    /\ pcPts = "loop"
    /\ iPts > Len(helpers_json.v)
    /\ pcPts' = "done"
    /\ UNCHANGED <<scene, helpers_json, points, iPts>>

\* Entries of a _helpers.json written by hand or by another exporter
OtherEntries ==
    { [path |-> <<"/", "x">>, type |-> <<"T">>, hasMesh |-> hm, transform |-> tr] :
        hm \in BOOLEAN,
        tr \in { JMissing, JNull, JList(<<>>),
                 RowsOf(Translated(<<100, 200, 300>>)),
                 JList(SubSeq(RowsOf(Counting).v, 1, 3)),
                 NumList(Counting) } }

OtherFiles ==
    {NoFile, [t |-> "dict"]}
    \cup { JList(s) : s \in UNION { [1..n -> OtherEntries] : n \in 0..MaxHelpers } }

\* points the geometry holds before the SOP cooks
PriorPoints ==
    { <<>>, <<[NewPoint EXCEPT !.P = <<900, 900, 900>>, !.type = <<"o">>]>> }

StartPts ==
    /\ points \in PriorPoints
    /\ iPts = 0
    /\ \/ scene \in Scenes /\ helpers_json = NoFile /\ pcPts = "maya"
       \/ scene = <<>> /\ helpers_json \in OtherFiles /\ pcPts = "houdini"

IdlePts ==
    /\ scene = <<>>
    /\ helpers_json = NoFile
    /\ points = <<>>
    /\ iPts = 0
    /\ pcPts = "idle"

(***************************************************************************)
(* maya_export_extension.py                                                *)
(***************************************************************************)
Outcomes == {"ok", "raise"}

\* copy_with_retry(src, dst, retries=5, delay=0.5)
retries == 5

\* main, lines 159-169: create the output folder, start Maya, load the
\* plug-ins (failures swallowed), open the scene.  An exception here leaves
\* main before any export.
OpenScene ==
    /\ OnlyExt
    /\ pcExt = "main"
    /\ \E o \in Outcomes :
         /\ calls' = Append(calls, <<"open", o>>)
         /\ pcExt' = IF o = "ok" THEN "usd" ELSE "crashed"
    /\ UNCHANGED <<roots, selected, iCopy>>

\* where export_usd goes after the direct cmds.file(usd_final, ...)
AfterDirectNoReturn(o) == "stage_dir"

AfterDirect(o) == IF o = "ok" THEN "fbx" ELSE "stage_dir"

\* export_usd, lines 89-105: select all when nothing is selected, export to
\* the final path; return on success
UsdDirect ==
    /\ OnlyExt
    /\ pcExt = "usd"
    /\ selected' = (selected \/ roots > 0)
    /\ \E o \in Outcomes :
         /\ calls' = calls \o << <<"export_usd", "enter">>, <<"usd_direct", o>> >>
         /\ pcExt' = AfterDirect(o)
    /\ UNCHANGED <<roots, iCopy>>

\* export_usd, lines 108-109: the staging folder under the temp folder is
\* made outside any try; an exception there leaves export_usd and main
UsdStageDir ==
    /\ OnlyExt
    /\ pcExt = "stage_dir"
    /\ \E o \in Outcomes :
         /\ calls' = Append(calls, <<"stage_dir", o>>)
         /\ pcExt' = IF o = "ok" THEN "staged" ELSE "crashed"
    /\ UNCHANGED <<roots, selected, iCopy>>

\* export_usd, lines 110-111 and 117-118: export to the staging folder
UsdStaged ==
    /\ OnlyExt
    /\ pcExt = "staged"
    /\ \E o \in Outcomes :
         /\ calls' = Append(calls, <<"usd_staged", o>>)
         /\ pcExt' = IF o = "ok" THEN "copy" ELSE "fbx"
    /\ iCopy' = 0
    /\ UNCHANGED <<roots, selected>>

\* copy_with_retry, lines 45-52: one shutil.copy2 attempt
CopyAttempt ==
    /\ OnlyExt
    /\ pcExt = "copy"
    /\ iCopy < retries
    /\ \E o \in Outcomes :
         /\ calls' = Append(calls, <<"copy", o>>)
         /\ pcExt' = IF o = "ok" \/ iCopy = retries - 1 THEN "fbx" ELSE "copy"
         /\ iCopy' = IF o = "ok" THEN iCopy ELSE iCopy + 1
    /\ UNCHANGED <<roots, selected>>

\* where main goes after export_fbx's cmds.file
AfterFbxUncaught(o) == IF o = "ok" THEN "abc" ELSE "crashed"

AfterFbx(o) == "abc"

\* export_fbx, lines 120-130
ExportFbx ==
    /\ OnlyExt
    /\ pcExt = "fbx"
    /\ selected' = (selected \/ roots > 0)
    /\ \E o \in Outcomes :
         /\ calls' = calls \o << <<"export_fbx", "enter">>, <<"fbx", o>> >>
         /\ pcExt' = AfterFbx(o)
    /\ UNCHANGED <<roots, iCopy>>

\* export_abc, lines 132-146: without top-level transforms the RuntimeError
\* is raised (and caught) before AbcExport is called
ExportAbc ==
    /\ OnlyExt
    /\ pcExt = "abc"
    /\ \/ /\ roots = 0
          /\ calls' = Append(calls, <<"export_abc", "enter">>)
       \/ /\ roots > 0
          /\ \E o \in Outcomes :
               calls' = calls \o << <<"export_abc", "enter">>, <<"AbcExport", o>> >>
    /\ pcExt' = "done"
    /\ UNCHANGED <<roots, selected, iCopy>>

StartExt ==
    /\ roots \in 0..MaxRoots
    /\ selected = FALSE
    /\ calls = <<>>
    /\ iCopy = 0
    /\ pcExt = "main"

IdleExt ==
    /\ roots = 0
    /\ selected = FALSE
    /\ calls = <<>>
    /\ iCopy = 0
    /\ pcExt = "idle"

(***************************************************************************)
(* mayaExport.py: export_final_workflow                                    *)
(*                                                                         *)
(* cmds.error raises RuntimeError in Python: an except block that calls it *)
(* leaves the function by that exception.                                  *)
(***************************************************************************)
usd_path(base) == base \o <<".", "u", "s", "d">>
attrs_json_path(base) == base \o <<"_", "a", "t", "t", "r", "s", ".", "j", "s", "o", "n">>
helpers_json_path(base) ==
    base \o <<"_", "h", "e", "l", "p", "e", "r", "s", ".", "j", "s", "o", "n">>

BasePaths == { <<>>, <<"o", "/", "x">>, <<"p", "/", "y">> }

\* len(source_objects): the assemblies, or the selection
SourceCount == IF export_all THEN assemblies ELSE nSelected

\* lines 21-49: the argument check, the output folder, the objects to export
Prepare ==
    /\ OnlyFin
    /\ pcFin = "entry"
    /\ \/ /\ base_file_path = <<>>                \* lines 21-23
          /\ pcFin' = "returned"
          /\ UNCHANGED <<dir_exists, selection, steps>>
       \/ /\ base_file_path # <<>>                \* lines 30-32
          /\ ~dir_exists
          /\ steps' = Append(steps, <<"makedirs", "raise">>)
          /\ pcFin' = "raised"
          /\ UNCHANGED <<dir_exists, selection>>
       \/ /\ base_file_path # <<>>                \* lines 26-29, 35-49
          /\ steps' = IF dir_exists THEN steps
                                    ELSE Append(steps, <<"makedirs", "ok">>)
          /\ dir_exists' = TRUE
          /\ IF SourceCount = 0
             THEN pcFin' = "returned" /\ UNCHANGED selection
             ELSE pcFin' = "usd" /\ selection' = "source"
    /\ UNCHANGED <<base_file_path, export_all, assemblies, nSelected, files>>

\* where the function goes after cmds.mayaUSDExport
AfterUsdExportIgnored(o) == "attrs"

AfterUsdExport(o) == IF o = "ok" THEN "attrs" ELSE "raised"

\* lines 51-72: export the geometry; the finally block restores a non-empty
\* original selection
ExportUsdFile ==
    /\ OnlyFin
    /\ pcFin = "usd"
    /\ \E o \in Outcomes :
         /\ steps' = Append(steps, <<"mayaUSDExport", o>>)
         /\ files' = IF o = "ok" THEN files \cup {usd_path(base_file_path)} ELSE files
         /\ pcFin' = AfterUsdExport(o)
    /\ selection' = IF nSelected > 0 THEN "original" ELSE selection
    /\ UNCHANGED <<base_file_path, export_all, dir_exists, assemblies, nSelected>>

\* lines 74-150: collect the metadata and the helpers, write _attrs.json
WriteAttrs ==
    /\ OnlyFin
    /\ pcFin = "attrs"
    /\ \E o \in Outcomes :
         /\ steps' = Append(steps, <<"write_attrs", o>>)
         /\ files' = IF o = "ok" THEN files \cup {attrs_json_path(base_file_path)}
                                ELSE files
         /\ pcFin' = IF o = "ok" THEN "helpers" ELSE "raised"
    /\ UNCHANGED <<base_file_path, export_all, dir_exists, assemblies, selection,
                   nSelected>>

\* lines 152-168: write _helpers.json, show the dialog
WriteHelpers ==
    /\ OnlyFin
    /\ pcFin = "helpers"
    /\ \E o \in Outcomes :
         /\ steps' = Append(steps, <<"write_helpers", o>>)
         /\ files' = IF o = "ok" THEN files \cup {helpers_json_path(base_file_path)}
                                ELSE files
         /\ pcFin' = IF o = "ok" THEN "done" ELSE "raised"
    /\ UNCHANGED <<base_file_path, export_all, dir_exists, assemblies, selection,
                   nSelected>>

StartFin ==
    /\ base_file_path \in BasePaths
    /\ export_all \in BOOLEAN
    /\ dir_exists \in BOOLEAN
    /\ assemblies \in 0..MaxRoots
    /\ nSelected \in 0..1
    /\ selection = "original"
    /\ files = {}
    /\ steps = <<>>
    /\ pcFin = "entry"

IdleFin ==
    /\ base_file_path = <<>>
    /\ export_all = FALSE
    /\ dir_exists = FALSE
    /\ assemblies = 0
    /\ nSelected = 0
    /\ selection = "original"
    /\ files = {}
    /\ steps = <<>>
    /\ pcFin = "idle"

(***************************************************************************)
(* import_helpers_to_houdini.py                                            *)
(***************************************************************************)
\* UNIT_SCALE = 0.01 in hundredths, and the denominator of that unit
UNIT_SCALE == 1
SCALE_DEN == 100

\* float(x) * unit_scale
Times(x, scale) == (x * scale) \div SCALE_DEN

\* [list(row) for row in m_list] ... hou.Matrix4(rows): whether every step of
\* the function succeeds on m_list
IsMatrixList(m_list) ==
    /\ IsList(m_list)
    /\ \A r \in 1..Len(m_list.v) : IsList(m_list.v[r])
    /\ Len(m_list.v) = 4
    /\ \A r \in 1..4 :
          /\ Len(m_list.v[r].v) = 4
          /\ \A c \in 1..4 : IsNum(m_list.v[r].v[c])

\* rows after the three assignments of lines 76-78
ScaledRows(m_list, scale) ==
    [r \in 1..4 |->
        [c \in 1..4 |->
            IF r = 4 /\ c <= 3 THEN Times(m_list.v[r].v[c].v, scale)
                               ELSE m_list.v[r].v[c].v]]

\* hou.Matrix4(rows) read row-major: element 4*i+j is rows[i][j]
Flat16(rows) == [k \in 1..16 |-> rows[((k - 1) \div 4) + 1][((k - 1) % 4) + 1]]

\* the same without the copy of line 74: rows is m_list itself
matrix_list_in_place(m_list, scale) ==
    IF ~IsMatrixList(m_list) THEN [ok |-> FALSE, arg |-> m_list]
    ELSE LET rows == ScaledRows(m_list, scale)
         IN  [ok  |-> TRUE,
              M   |-> Flat16(rows),
              arg |-> JList([r \in 1..4 |-> NumList(rows[r])])]

\* matrix_list_to_hou_matrix4(m_list, unit_scale): ok is FALSE when it raises,
\* M is the hou.Matrix4 returned (row-major), arg the list passed in as the
\* call leaves it
matrix_list_to_hou_matrix4(m_list, scale) ==
    IF ~IsMatrixList(m_list) THEN [ok |-> FALSE, arg |-> m_list]
    ELSE LET rows == ScaledRows(m_list, scale)
         IN  [ok  |-> TRUE,
              M   |-> Flat16(rows),
              arg |-> m_list]

Green == <<35, 75, 35>>     \* hou.Color((0.35, 0.75, 0.35))
Blue == <<35, 55, 85>>      \* hou.Color((0.35, 0.55, 0.85))
DefaultColor == <<80, 80, 80>>
NoParm == <<"NoParm">>      \* node.parm("helper_type") is None

\* parent.createNode("null", node_name=part) with lines 60-64 applied
CreatedNull(is_leaf) ==
    [geoscale    |-> IF is_leaf THEN 10 ELSE 5,
     controltype |-> IF is_leaf THEN 7 ELSE 0,
     color       |-> DefaultColor,
     helper_type |-> NoParm,
     is_helper_group |-> ~is_leaf,
     world       |-> identity_matrix]

RECURSIVE EnsureFrom(_, _, _)
\* the loop of ensure_hierarchy_from_path over parts[k..]
EnsureFrom(ns, parts, k) ==
    IF k > Len(parts) THEN ns
    ELSE LET key == SubSeq(parts, 1, k)
         IN  EnsureFrom(IF key \in DOMAIN ns THEN ns
                        ELSE (key :> CreatedNull(k = Len(parts))) @@ ns,
                        parts, k + 1)

PathParts(dag_path) == NonEmptyParts(Split(dag_path, "/"))

\* entry.get(key) or ""
OrEmpty(v) == IF v = None THEN <<>> ELSE v

\* colorize, controltype, geoscale, add_helper_type_parm (lines 138-142)
Dressed(node, has_mesh, typ) ==
    [node EXCEPT !.color = IF has_mesh THEN Green ELSE Blue,
                 !.controltype = IF has_mesh THEN 7 ELSE 1,
                 !.geoscale = 10,
                 !.helper_type = typ]

\* import_helpers, lines 104-121
LoadHelpers ==
    /\ OnlyImp
    /\ pcImp = "start"
    /\ data' = json_text
    /\ iImp' = 1
    /\ pcImp' = "loop"
    /\ UNCHANGED <<json_text, unit_scale, nodes, okIdx>>

\* one iteration of "for entry in data" (lines 124-150)
ProcessEntry ==
    /\ OnlyImp
    /\ pcImp = "loop"
    /\ iImp <= Len(data)
    /\ LET entry    == data[iImp]
           dag_path == OrEmpty(entry.path)
           typ      == OrEmpty(entry.type)
           parts    == PathParts(dag_path)
           r        == matrix_list_to_hou_matrix4(entry.matrix, unit_scale)
       IN  IF dag_path = <<>> \/ ~Truthy(entry.matrix)
           THEN UNCHANGED <<data, nodes, okIdx>>          \* continue
           ELSE IF parts = <<>>
           THEN UNCHANGED <<data, nodes, okIdx>>          \* ValueError, caught
           ELSE LET ns   == EnsureFrom(nodes, parts, 1)
                    leaf == Dressed(ns[parts], entry.hasMesh, typ)
                IN  /\ data' = [data EXCEPT ![iImp].matrix = r.arg]
                    /\ IF r.ok
                       THEN /\ nodes' = [ns EXCEPT ![parts] = [leaf EXCEPT !.world = r.M]]
                            /\ okIdx' = okIdx \cup {iImp}
                       ELSE /\ nodes' = [ns EXCEPT ![parts] = leaf]   \* caught
                            /\ UNCHANGED okIdx
    /\ iImp' = iImp + 1
    /\ UNCHANGED <<json_text, unit_scale, pcImp>>

\* lines 152-157
FinishHelpers ==
    /\ OnlyImp
    /\ pcImp = "loop"
    /\ iImp > Len(data)
    /\ pcImp' = "done"
    /\ UNCHANGED <<json_text, data, unit_scale, nodes, okIdx, iImp>>

PathA == <<"/", "a">>
PathASlash == <<"/", "a", "/">>
PathAB == <<"/", "a", "/", "b", "/">>

HelperMatrices == { RowsOf(Counting), RowsOf(Translated(<<500, 600, 700>>)) }

\* the entries a helpers file may hold
HelperEntries ==
    { [path |-> p, type |-> (IF hm THEN <<"T">> ELSE <<"U">>), hasMesh |-> hm,
       matrix |-> m] :
        p \in {PathA, PathASlash, PathAB}, hm \in BOOLEAN, m \in HelperMatrices }
    \cup
    { [path |-> PathA, type |-> <<"V">>, hasMesh |-> hm, matrix |-> NumList(Counting)] :
        hm \in BOOLEAN }
    \cup
    { [path |-> PathASlash, type |-> <<"T">>, hasMesh |-> TRUE, matrix |-> JMissing],
      [path |-> <<>>, type |-> <<"T">>, hasMesh |-> TRUE, matrix |-> RowsOf(Counting)],
      [path |-> <<"/">>, type |-> <<"T">>, hasMesh |-> TRUE, matrix |-> RowsOf(Counting)],
      [path |-> PathAB, type |-> None, hasMesh |-> FALSE, matrix |-> RowsOf(Counting)] }

EmptyNodes == [k \in {} |-> 0]

StartImp ==
    /\ json_text \in UNION { [1..n -> HelperEntries] : n \in 0..MaxEntries }
    /\ data = <<>>
    /\ unit_scale \in {UNIT_SCALE, 50}
    /\ nodes = EmptyNodes
    /\ okIdx = {}
    /\ iImp = 0
    /\ pcImp = "start"

IdleImp ==
    /\ json_text = <<>>
    /\ data = <<>>
    /\ unit_scale = UNIT_SCALE
    /\ nodes = EmptyNodes
    /\ okIdx = {}
    /\ iImp = 0
    /\ pcImp = "idle"

(***************************************************************************)
(* houdiniImporMedaDane.py: the values of the JSON file                    *)
(***************************************************************************)
JInt(n) == [t |-> "int", v |-> n]          \* a JSON number without fraction
JBool(b) == [t |-> "bool", v |-> b]
JDict == [t |-> "dict"]                    \* a JSON object used as a value
JInvalid == [t |-> "invalid"]              \* what json.loads cannot decode
\* a JSON string, by the value json.loads(text) gives (JInvalid: it raises)
JStr(decoded) == [t |-> "str", loads |-> decoded]

\* isinstance(x, (int, float)): bool is a subclass of int
PyNumber(j) == j.t \in {"num", "int", "bool"}

\* float(x) succeeds on numbers and on strings that spell a number
PyFloatOk(j) == PyNumber(j) \/ (j.t = "str" /\ j.loads.t \in {"num", "int"})

PyFloat(j) ==
    CASE j.t = "bool" -> IF j.v THEN One ELSE 0
      [] j.t = "str"  -> j.loads.v
      [] OTHER        -> j.v

\* isinstance(val, (list, tuple))
PyList(j) == j.t = "list"

NotParsed == [k |-> "none"]                \* the function returned None
ParseRaised == [k |-> "raise"]             \* float(x) raised inside it
Parsed(m) == [k |-> "tuple", M |-> m]

\* lines 19-27 of _parse_matrix16, on a value that is no string
ParseList(val) ==
    IF PyList(val) /\ Len(val.v) = 16 /\ \A k \in 1..16 : PyNumber(val.v[k])
    THEN Parsed([k \in 1..16 |-> PyFloat(val.v[k])])
    ELSE IF /\ PyList(val) /\ Len(val.v) = 4
            /\ \A r \in 1..4 : PyList(val.v[r]) /\ Len(val.v[r].v) = 4
    THEN IF \A r \in 1..4 : \A c \in 1..4 : PyFloatOk(val.v[r].v[c])
         THEN Parsed(Flat16([r \in 1..4 |-> [c \in 1..4 |-> PyFloat(val.v[r].v[c])]]))
         ELSE ParseRaised
    ELSE NotParsed

_parse_matrix16(val) ==
    IF val.t = "str"
    THEN IF val.loads.t = "invalid" THEN NotParsed ELSE ParseList(val.loads)
    ELSE ParseList(val)

\* _to_vec3(v): Parsed(the three numbers of the hou.Vector3), or NotParsed
_to_vec3(v) ==
    IF PyList(v) /\ Len(v.v) = 3 /\ \A k \in 1..3 : PyNumber(v.v[k])
    THEN Parsed([k \in 1..3 |-> PyFloat(v.v[k])])
    ELSE IF v.t = "str" /\ v.loads.t # "invalid" /\ PyList(v.loads) /\ Len(v.loads.v) = 3
            /\ \A k \in 1..3 : PyFloatOk(v.loads.v[k])
    THEN Parsed([k \in 1..3 |-> PyFloat(v.loads.v[k])])
    ELSE NotParsed

\* x * 0.01 on a number held in hundredths
Hundredth(x) == x \div SCALE_DEN

\* vmin * 0.01
VecHundredth(v) == [k \in 1..3 |-> Hundredth(v[k])]

\* hou.Vector3((m16[12]*0.01, m16[13]*0.01, m16[14]*0.01)), lines 99 and 114
translation_of(m16) == <<Hundredth(m16[13]), Hundredth(m16[14]), Hundredth(m16[15])>>

(***************************************************************************)
(* houdiniImporMedaDane.py: the primitive attributes of geo                *)
(***************************************************************************)
Restrict(f, S) == [x \in S |-> f[x]]

\* geo.findPrimAttrib(name)
findPrimAttrib(g, name) == name \in DOMAIN g.attribs

\* geo.removePrimAttrib(name)
removePrimAttrib(g, name) ==
    [attribs |-> Restrict(g.attribs, DOMAIN g.attribs \ {name}),
     prims   |-> [i \in 1..Len(g.prims) |->
                    [g.prims[i] EXCEPT !.vals = Restrict(@, DOMAIN @ \ {name})]]]

\* geo.addAttrib(hou.attribType.Prim, name, default): every primitive gets
\* the default
addAttrib(g, name, type, default) ==
    [attribs |-> (name :> [type |-> type, default |-> default]) @@ g.attribs,
     prims   |-> [i \in 1..Len(g.prims) |->
                    [g.prims[i] EXCEPT !.vals = (name :> default) @@ @]]]

\* prim.setAttribValue(name, value) on primitive i
setAttribValue(g, i, name, value) ==
    [g EXCEPT !.prims[i].vals[name] = value]

Zero16 == [k \in 1..16 |-> 0]
Zero3 == <<0, 0, 0>>

MatrixAttrs == <<"LEGO_startPosition", "worldMatrix">>
VectorAttrs == <<"LEGO_startPosition_translation", "worldMatrix_translation",
                 "bbox_min", "bbox_max">>

RECURSIVE AddMissing(_, _, _)
\* lines 78-87: if not geo.findPrimAttrib(name): geo.addAttrib(name, Vector3)
AddMissing(g, names, k) ==
    IF k > Len(names) THEN g
    ELSE AddMissing(IF findPrimAttrib(g, names[k]) THEN g
                    ELSE addAttrib(g, names[k], "float3", Zero3), names, k + 1)

RECURSIVE soft_reset(_, _, _)
\* the matrix attributes created only where they are missing
soft_reset(g, names, k) ==
    IF k > Len(names) THEN g
    ELSE soft_reset(IF findPrimAttrib(g, names[k]) THEN g
                    ELSE addAttrib(g, names[k], "float16", Zero16), names, k + 1)

RECURSIVE hard_reset(_, _, _)
\* lines 71-75: remove the attribute if it is there, add it as 16 floats
hard_reset(g, names, k) ==
    IF k > Len(names) THEN g
    ELSE hard_reset(addAttrib(IF findPrimAttrib(g, names[k])
                              THEN removePrimAttrib(g, names[k]) ELSE g,
                              names[k], "float16", Zero16), names, k + 1)

(***************************************************************************)
(* houdiniImporMedaDane.py: the main loop                                  *)
(***************************************************************************)
\* "LEGO_startPosition" in (extra.get(sec) or {}); a section is the sequence
\* of its <<key, value>> pairs in the order of the file
HasKey(section, key) == \E k \in 1..Len(section) : section[k][1] = key

\* extra[sec]["LEGO_startPosition"]
ValueOf(section, key) ==
    section[CHOOSE k \in 1..Len(section) : section[k][1] = key][2]

\* lines 102-109: the section transform, then shape, the first that holds
\* the key; the record itself only when that gave None
start_raw(rec) ==
    LET found == IF HasKey(rec.extraAttributes.transform, "LEGO_startPosition")
                 THEN ValueOf(rec.extraAttributes.transform, "LEGO_startPosition")
                 ELSE IF HasKey(rec.extraAttributes.shape, "LEGO_startPosition")
                 THEN ValueOf(rec.extraAttributes.shape, "LEGO_startPosition")
                 ELSE JNull
    IN  IF found.t = "null" /\ rec.LEGO_startPosition.t # "missing"
        THEN rec.LEGO_startPosition ELSE found

\* lines 97-99 and 112-114: if m16: set the matrix and its translation
StoreMatrix(g, i, name, parsed) ==
    IF parsed.k = "tuple"
    THEN setAttribValue(setAttribValue(g, i, name, parsed.M),
                        i, name \o "_translation", translation_of(parsed.M))
    ELSE g

\* lines 120-121: if vmin: prim.setAttribValue("bbox_min", vmin*0.01)
StoreVec(g, i, name, vec) ==
    IF vec.k = "tuple" THEN setAttribValue(g, i, name, VecHundredth(vec.M)) ELSE g

\* isinstance(val, (int, float, str))
PySimple(j) == j.t \in {"num", "int", "bool", "str"}

\* the value a simple JSON value puts into an attribute
SimpleValue(j) == IF j.t = "str" THEN j ELSE j.v

\* lines 130-134 and 144-148: create the attribute by the type of the value
\* if it is missing, then set it
StoreSimple(g, i, k, val) ==
    LET g1 == IF findPrimAttrib(g, k) THEN g
              ELSE IF val.t \in {"int", "bool"} THEN addAttrib(g, k, "int", 0)
              ELSE IF val.t = "num" THEN addAttrib(g, k, "float", 0)
              ELSE addAttrib(g, k, "string", JStr(JInvalid))
    IN  setAttribValue(g1, i, k, SimpleValue(val))

ScalarKeys == <<"vmeCommonPartType", "instanced", "vertices", "faces">>

RECURSIVE StoreScalars(_, _, _, _)
\* lines 124-134: for k in (...): if k in rec: ...
StoreScalars(g, i, rec, n) ==
    IF n > Len(ScalarKeys) THEN g
    ELSE LET k == ScalarKeys[n]
         IN  StoreScalars(IF k \in DOMAIN rec.scalars /\ PySimple(rec.scalars[k])
                          THEN StoreSimple(g, i, k, rec.scalars[k]) ELSE g,
                          i, rec, n + 1)

RECURSIVE StoreExtra(_, _, _, _)
\* lines 139-154: for k, v in items: ...
StoreExtra(g, i, section, n) ==
    IF n > Len(section) THEN g
    ELSE LET k == section[n][1]
             v == section[n][2]
             g1 == IF k = "LEGO_startPosition" THEN g
                   ELSE IF PySimple(v) THEN StoreSimple(g, i, k, v)
                   ELSE IF _to_vec3(v).k = "tuple"
                   THEN setAttribValue(IF findPrimAttrib(g, k) THEN g
                                       ELSE addAttrib(g, k, "float3", Zero3),
                                       i, k, _to_vec3(v).M)
                   ELSE g
         IN  StoreExtra(g1, i, section, n + 1)

\* lines 95-154 for primitive i and its record, when nothing raises
apply_record(g, i, rec) ==
    LET g1 == StoreMatrix(g, i, "worldMatrix", _parse_matrix16(rec.worldMatrix))
        g2 == StoreMatrix(g1, i, "LEGO_startPosition", _parse_matrix16(start_raw(rec)))
        g3 == StoreVec(g2, i, "bbox_min", _to_vec3(rec.bbox.min))
        g4 == StoreVec(g3, i, "bbox_max", _to_vec3(rec.bbox.max))
        g5 == StoreScalars(g4, i, rec, 1)
        g6 == StoreExtra(g5, i, rec.extraAttributes.transform, 1)
    IN  StoreExtra(g6, i, rec.extraAttributes.shape, 1)

\* float(x) raises in one of the two calls of _parse_matrix16
RecordRaises(rec) ==
    \/ _parse_matrix16(rec.worldMatrix).k = "raise"
    \/ _parse_matrix16(start_raw(rec)).k = "raise"

\* _rec_for(prim) with the attribute path only: index into records, 0 for None
RecOfPrim(i) == _rec_for(rec_of, <<prims[i].path, NoAttr, NoAttr>>)

\* lines 41-55: no file raises hou.NodeError; else records and rec_map
LoadJson ==
    /\ OnlyMeta
    /\ pcMeta = "load"
    /\ IF json_file = NoFile
       THEN /\ pcMeta' = "error"
            /\ UNCHANGED <<records, rec_of>>
       ELSE /\ records' = json_file.meshes
            /\ rec_of' = BuildRecMap(json_file.meshes)
            /\ pcMeta' = "reset"
    /\ UNCHANGED <<json_file, input_geo, attribs, prims, applied, iPrim>>

\* lines 70-90
ResetAttribs ==
    /\ OnlyMeta
    /\ pcMeta = "reset"
    /\ LET g == AddMissing(hard_reset([attribs |-> attribs, prims |-> prims],
                                      MatrixAttrs, 1), VectorAttrs, 1)
       IN  /\ attribs' = g.attribs
           /\ prims' = g.prims
    /\ applied' = 0
    /\ iPrim' = 1
    /\ pcMeta' = "loop"
    /\ UNCHANGED <<json_file, input_geo, records, rec_of>>

\* lines 92-93: if not rec: continue
SkipPrim ==
    /\ OnlyMeta
    /\ pcMeta = "loop"
    /\ iPrim <= Len(prims)
    /\ RecOfPrim(iPrim) = 0
    /\ iPrim' = iPrim + 1
    /\ UNCHANGED <<json_file, input_geo, records, rec_of, attribs, prims, applied, pcMeta>>

\* lines 95-157 for one primitive
ApplyRecord ==
    /\ OnlyMeta
    /\ pcMeta = "loop"
    /\ iPrim <= Len(prims)
    /\ RecOfPrim(iPrim) # 0
    /\ ~RecordRaises(records[RecOfPrim(iPrim)])
    /\ LET g == apply_record([attribs |-> attribs, prims |-> prims], iPrim,
                             records[RecOfPrim(iPrim)])
       IN  /\ attribs' = g.attribs
           /\ prims' = g.prims
    /\ applied' = applied + 1
    /\ iPrim' = iPrim + 1
    /\ UNCHANGED <<json_file, input_geo, records, rec_of, pcMeta>>

\* line 25: float(x) of a row element that is no number leaves the script;
\* what lines 96-99 stored before the second call raised stays stored
ApplyRaises ==
    /\ OnlyMeta
    /\ pcMeta = "loop"
    /\ iPrim <= Len(prims)
    /\ RecOfPrim(iPrim) # 0
    /\ RecordRaises(records[RecOfPrim(iPrim)])
    /\ LET wm16 == _parse_matrix16(records[RecOfPrim(iPrim)].worldMatrix)
           g == IF wm16.k = "raise" THEN [attribs |-> attribs, prims |-> prims]
                ELSE StoreMatrix([attribs |-> attribs, prims |-> prims], iPrim,
                                 "worldMatrix", wm16)
       IN  /\ attribs' = g.attribs
           /\ prims' = g.prims
    /\ pcMeta' = "raised"
    /\ UNCHANGED <<json_file, input_geo, records, rec_of, applied, iPrim>>

\* line 159
FinishMeta ==
    /\ OnlyMeta
    /\ pcMeta = "loop"
    /\ iPrim > Len(prims)
    /\ pcMeta' = "done"
    /\ UNCHANGED <<json_file, input_geo, records, rec_of, attribs, prims, applied, iPrim>>

(***************************************************************************)
(* houdiniImporMedaDane.py: the files and geometries of the model          *)
(***************************************************************************)
StartA == Translated(<<500, 600, 700>>)
StartB == [k \in 1..16 |-> (17 - k) * One]

\* a 4x4 list with None where a number belongs
BrokenRows ==
    JList(<<NumList(<<One, 0, 0, 0>>), NumList(<<0, One, 0, 0>>),
            NumList(<<0, 0, One, 0>>), JList(<<JNum(500), JNull, JNum(700), JNum(One)>>)>>)

LSP(v) == <<"LEGO_startPosition", v>>

NoBBox == [min |-> JMissing, max |-> JMissing]

\* what one record holds besides its paths: the shapes maya_meta_export
\* writes (worldMatrix as four rows, getAttr's flat list of a matrix
\* attribute, null for an attribute getAttr could not read) and the other
\* shapes the importer accepts or rejects
RecordBodies ==
    { [worldMatrix |-> RowsOf(StartA),
       bbox |-> [min |-> NumList(<<100, 200, 300>>), max |-> NumList(<<400, 500, 600>>)],
       extraAttributes |-> [transform |-> <<LSP(NumList(Counting)), <<"LEGO_id", JInt(4200)>>>>,
                            shape |-> <<LSP(NumList(StartB))>>],
       LEGO_startPosition |-> JMissing,
       scalars |-> [vmeCommonPartType |-> JNull, instanced |-> JBool(TRUE)]],
      [worldMatrix |-> NumList(Counting),
       bbox |-> [min |-> JStr(NumList(<<100, 200, 300>>)), max |-> NumList(<<400, 500>>)],
       extraAttributes |-> [transform |-> <<<<"LEGO_pivot", NumList(<<100, 200, 300>>)>>>>,
                            shape |-> <<LSP(NumList(StartB))>>],
       LEGO_startPosition |-> JMissing,
       scalars |-> [vmeCommonPartType |-> JDict, instanced |-> JBool(FALSE)]],
      [worldMatrix |-> JStr(RowsOf(Counting)),
       bbox |-> NoBBox,
       extraAttributes |-> [transform |-> <<>>, shape |-> <<>>],
       LEGO_startPosition |-> RowsOf(StartB),
       scalars |-> [instanced |-> JBool(FALSE)]],
      [worldMatrix |-> JStr(JInvalid),
       bbox |-> NoBBox,
       extraAttributes |-> [transform |-> <<LSP(JNull)>>,
                            shape |-> <<LSP(NumList(Counting))>>],
       LEGO_startPosition |-> NumList(StartB),
       scalars |-> [instanced |-> JBool(FALSE)]],
      [worldMatrix |-> JMissing,
       bbox |-> NoBBox,
       extraAttributes |-> [transform |-> <<LSP(JStr(JInvalid))>>, shape |-> <<>>],
       LEGO_startPosition |-> NumList(StartB),
       scalars |-> [instanced |-> JBool(FALSE)]],
      [worldMatrix |-> BrokenRows,
       bbox |-> NoBBox,
       extraAttributes |-> [transform |-> <<>>, shape |-> <<>>],
       LEGO_startPosition |-> JMissing,
       scalars |-> [instanced |-> JBool(FALSE)]],
      [worldMatrix |-> RowsOf(StartA),
       bbox |-> NoBBox,
       extraAttributes |-> [transform |-> <<>>, shape |-> <<LSP(BrokenRows)>>],
       LEGO_startPosition |-> JMissing,
       scalars |-> [instanced |-> JBool(FALSE)]] }

MetaShapes == { <<"|", "a", "|", "s">>, <<"|", "b", "|", "s">> }

\* the record of one shape: its two paths and a body
MetaRecord(shape, body) ==
    [transformPathUnix  |-> _dag_to_unix_path(ParentDag(shape)),
     shapePathUnix      |-> _dag_to_unix_path(shape),
     worldMatrix        |-> body.worldMatrix,
     bbox               |-> body.bbox,
     extraAttributes    |-> body.extraAttributes,
     LEGO_startPosition |-> body.LEGO_startPosition,
     scalars            |-> body.scalars]

MetaRecords == { MetaRecord(sh, b) : sh \in MetaShapes, b \in RecordBodies }

\* the lists of records of a file: no shape twice
MetaFiles ==
    { s \in UNION { [1..n -> MetaRecords] : n \in 0..MaxMeshes } :
        \A i, j \in 1..Len(s) : i # j => s[i].shapePathUnix # s[j].shapePathUnix }

\* the path attribute of a primitive: the shape of a, the transform of b in
\* Maya's spelling, a node the file does not hold
PrimPaths == { <<"/", "a", "/", "s">>, <<"|", "b">>, <<"/", "z">> }

\* the geometry that arrives: without the attributes, with them as integers,
\* or with them as floats left by an earlier cook
EmptyVals == [x \in {} |-> 0]

PriorAttribs(kind) ==
    CASE kind = "none" -> EmptyVals
      [] kind = "ints" ->
           [worldMatrix |-> [type |-> "int", default |-> 0],
            LEGO_startPosition |-> [type |-> "int", default |-> 0]]
      [] OTHER ->
           [worldMatrix |-> [type |-> "float16", default |-> Zero16],
            LEGO_startPosition |-> [type |-> "float16", default |-> Zero16],
            worldMatrix_translation |-> [type |-> "float3", default |-> Zero3],
            bbox_min |-> [type |-> "float3", default |-> Zero3]]

PriorVals(kind) ==
    CASE kind = "none" -> EmptyVals
      [] kind = "ints" -> [worldMatrix |-> 7, LEGO_startPosition |-> 9]
      [] OTHER ->
           [worldMatrix |-> Counting, LEGO_startPosition |-> StartA,
            worldMatrix_translation |-> <<1, 2, 3>>, bbox_min |-> <<4, 5, 6>>]

PriorKinds == {"none", "ints", "floats"}

InputGeos ==
    { [attribs |-> PriorAttribs(kind),
       prims   |-> [i \in 1..Len(paths) |-> [path |-> paths[i], vals |-> PriorVals(kind)]]] :
        kind \in PriorKinds, paths \in UNION { [1..n -> PrimPaths] : n \in 0..MaxPrims } }

StartMeta ==
    /\ json_file \in {NoFile} \cup { [t |-> "file", meshes |-> m] : m \in MetaFiles }
    /\ input_geo \in InputGeos
    /\ attribs = input_geo.attribs
    /\ prims = input_geo.prims
    /\ records = <<>>
    /\ rec_of = EmptyMap
    /\ applied = 0
    /\ iPrim = 1
    /\ pcMeta = "load"

IdleMeta ==
    /\ json_file = NoFile
    /\ input_geo = [attribs |-> EmptyVals, prims |-> <<>>]
    /\ attribs = EmptyVals
    /\ prims = <<>>
    /\ records = <<>>
    /\ rec_of = EmptyMap
    /\ applied = 0
    /\ iPrim = 1
    /\ pcMeta = "idle"



(***************************************************************************)
(* maya_export_helpers.py                                                  *)
(***************************************************************************)
\* The long names of the transforms a scene may hold.  A name is a run of
\* tokens: <<"connectivity", "x">> is the node name connectivityx.
HelperDags ==
    { <<"|", "connectivity">>,
      <<"|", "connectivity", "|", "h">>,
      <<"|", "connectivity", "|", "h", "|", "k">>,
      <<"|", "connectivity", "|", "connectivity">>,
      <<"|", "connectivity", "|", "connectivity", "|", "h">>,
      <<"|", "a">>,
      <<"|", "a", "|", "h">>,
      <<"|", "a", "|", "connectivity">>,
      <<"|", "a", "|", "connectivity", "|", "h">>,
      <<"|", "a", "|", "connectivity", "x">>,
      <<"|", "a", "|", "connectivity", "x", "|", "h">> }

\* a scene holds the parent of every node it holds
HelperScenes ==
    { s \in SUBSET HelperDags :
        /\ Cardinality(s) <= MaxTransforms
        /\ \A n \in s : ParentDag(n) = <<"|">> \/ ParentDag(n) \in s }

\* node lies below root in the DAG
IsBelow(node, root) ==
    /\ Len(node) > Len(root) + 1
    /\ SubSeq(node, 1, Len(root) + 1) = root \o <<"|">>

\* the transforms whose name starts with 'connectivity'
find_roots_by_prefix ==
    { n \in all_transforms : LastSegment(n)[1] = "connectivity" }

\* the transforms named exactly 'connectivity'
_find_connectivity_roots ==
    { n \in all_transforms : LastSegment(n) = <<"connectivity">> }

\* cmds.listRelatives(root, ad=True, type='transform', fullPath=True): every
\* transform below root
_list_helpers_under(root) ==
    { n \in all_transforms : IsBelow(n, root) }

\* the entry of lines 230-237; attributes, nice names and the orientation
\* hint depend on attributes the model does not vary
helper_entry(node, m) ==
    [path   |-> _dag_to_unix_path(node),
     name   |-> LastSegment(node),
     matrix |-> RowsOf(m)]

\* line 215: cmds.file(..., open=True) raises and main ends in its finally
OpenHelperSceneFails ==
    /\ OnlyHlp
    /\ pcHlp = "open"
    /\ ~scene_opens
    /\ pcHlp' = "error"
    /\ UNCHANGED <<all_transforms, scene_opens, unreadable, roots_left, pending, seen, helper_data, out_json>>

\* lines 215-219
FindRoots ==
    /\ OnlyHlp
    /\ pcHlp = "open"
    /\ scene_opens
    /\ roots_left' = _find_connectivity_roots
    /\ pcHlp' = "roots"
    /\ UNCHANGED <<all_transforms, scene_opens, unreadable, pending, seen, helper_data, out_json>>

\* line 223-224: the next root, in the order cmds.ls gave
NextRoot ==
    /\ OnlyHlp
    /\ pcHlp = "roots"
    /\ \E root \in roots_left :
           /\ roots_left' = roots_left \ {root}
           /\ pending' = _list_helpers_under(root)
    /\ pcHlp' = "nodes"
    /\ UNCHANGED <<all_transforms, scene_opens, unreadable, seen, helper_data, out_json>>

\* the node the loop of line 224 reaches next: the reversed list runs from
\* the top down, so no node before its ancestors
IsNextNode(node) ==
    /\ node \in pending
    /\ \A other \in pending : ~IsBelow(node, other)

\* lines 225-226: if node in seen: continue
SkipSeenNode ==
    /\ OnlyHlp
    /\ pcHlp = "nodes"
    /\ \E node \in pending :
           /\ IsNextNode(node)
           /\ node \in seen
           /\ pending' = pending \ {node}
    /\ UNCHANGED <<all_transforms, scene_opens, unreadable, roots_left, seen, helper_data, out_json, pcHlp>>

\* lines 227-238
AppendHelper ==
    /\ OnlyHlp
    /\ pcHlp = "nodes"
    /\ \E node \in pending :
           /\ IsNextNode(node)
           /\ node \notin seen
           /\ node \notin unreadable
           /\ pending' = pending \ {node}
           /\ seen' = seen \cup {node}
           /\ helper_data' = Append(helper_data, helper_entry(node, identity_matrix))
    /\ UNCHANGED <<all_transforms, scene_opens, unreadable, roots_left, out_json, pcHlp>>

\* lines 227-240: a query of the node raises, the node is skipped
SkipUnreadable ==
    /\ OnlyHlp
    /\ pcHlp = "nodes"
    /\ \E node \in pending :
           /\ IsNextNode(node)
           /\ node \notin seen
           /\ node \in unreadable
           /\ pending' = pending \ {node}
           /\ seen' = seen \cup {node}
    /\ UNCHANGED <<all_transforms, scene_opens, unreadable, roots_left, helper_data, out_json, pcHlp>>

\* the inner loop is over
RootDone ==
    /\ OnlyHlp
    /\ pcHlp = "nodes"
    /\ pending = {}
    /\ pcHlp' = "roots"
    /\ UNCHANGED <<all_transforms, scene_opens, unreadable, roots_left, pending, seen, helper_data, out_json>>

\* lines 242-245: json.dump(data, f)
DumpHelpers ==
    /\ OnlyHlp
    /\ pcHlp = "roots"
    /\ roots_left = {}
    /\ out_json' = JList(helper_data)
    /\ pcHlp' = "done"
    /\ UNCHANGED <<all_transforms, scene_opens, unreadable, roots_left, pending, seen, helper_data>>

StartHlp ==
    /\ all_transforms \in HelperScenes
    /\ scene_opens \in BOOLEAN
    /\ unreadable \in { u \in SUBSET all_transforms : Cardinality(u) <= 1 }
    /\ roots_left = {}
    /\ pending = {}
    /\ seen = {}
    /\ helper_data = <<>>
    /\ out_json = NoFile
    /\ pcHlp = "open"

IdleHlp ==
    /\ all_transforms = {}
    /\ scene_opens = FALSE
    /\ unreadable = {}
    /\ roots_left = {}
    /\ pending = {}
    /\ seen = {}
    /\ helper_data = <<>>
    /\ out_json = NoFile
    /\ pcHlp = "idle"


(***************************************************************************)
(* maya_export_alembic_helpers.py                                          *)
(***************************************************************************)
\* The transforms a scene may hold; <<"Helper", "s">> is the name Helpers
LocatorSceneDags ==
    { <<"|", "Helper", "s">>,
      <<"|", "Helper", "s", "|", "loc">>,
      <<"|", "rig">>,
      <<"|", "rig", "|", "loc">>,
      <<"|", "rig", "|", "loc", "|", "tip">>,
      <<"|", "x">> }

\* cmds.ls(type="locator") and the parents of the shapes: the transforms
\* named loc and tip carry a locator shape
HasLocator(n) == LastSegment(n) \in { <<"loc">>, <<"tip">> }

LocatorScenes ==
    { s \in SUBSET LocatorSceneDags :
        /\ Cardinality(s) <= MaxTransforms
        /\ \A n \in s : ParentDag(n) = <<"|">> \/ ParentDag(n) \in s }

\* x.count('|')
Depth(n) == Cardinality({ k \in 1..Len(n) : n[k] = "|" })

RECURSIVE TopLevelFrom(_, _, _)
\* the loop of lines 74-76 over the nodes sorted by depth: the nodes of one
\* depth are no descendants of each other
TopLevelFrom(paths, d, chosen) ==
    IF \A n \in paths : Depth(n) < d THEN chosen
    ELSE TopLevelFrom(paths, d + 1,
             chosen \cup { n \in paths : /\ Depth(n) = d
                                         /\ ~\E r \in chosen : IsBelow(n, r) })

get_toplevel_roots(paths) == TopLevelFrom(paths, 1, {})

find_locator_transforms == { n \in abc_scene : HasLocator(n) }

\* cmds.ls("*Helper*", "*helpers*", type="transform", long=True)
NamedLikeHelper ==
    { n \in abc_scene :
        \E k \in 1..Len(LastSegment(n)) : LastSegment(n)[k] \in {"Helper", "helpers"} }

discover_helper_roots ==
    IF find_locator_transforms # {}
    THEN get_toplevel_roots(find_locator_transforms)
    ELSE get_toplevel_roots(NamedLikeHelper)

RECURSIVE GivenRoots(_, _)
\* lines 182-188: cmds.ls(r, long=True) of every --root, the found ones
GivenRoots(given, k) ==
    IF k > Len(given) THEN {}
    ELSE (IF given[k] \in abc_scene THEN {given[k]} ELSE {}) \cup GivenRoots(given, k + 1)

\* lines 177-178: the plugin does not load or the scene does not open
LoadOrOpenFails ==
    /\ OnlyAbc
    /\ pcAbc = "start"
    /\ fault \in {"plugin", "scene"}
    /\ main_returned' = <<1>>
    /\ pcAbc' = "returned"
    /\ UNCHANGED <<abc_scene, root_args, fault, out_is_file, abc_roots, discovery_used, abc_export_log>>

\* --root was given, and discovery steps in when none of the names exists
ResolveGivenOrDiscover ==
    /\ OnlyAbc
    /\ pcAbc = "start"
    /\ fault \notin {"plugin", "scene"}
    /\ root_args # None
    /\ IF GivenRoots(root_args, 1) # {}
       THEN /\ abc_roots' = get_toplevel_roots(GivenRoots(root_args, 1))
            /\ UNCHANGED discovery_used
       ELSE /\ abc_roots' = discover_helper_roots
            /\ discovery_used' = TRUE
    /\ pcAbc' = "roots"
    /\ UNCHANGED <<abc_scene, root_args, fault, out_is_file, abc_export_log, main_returned>>

\* lines 181-189: --root was given
ResolveGivenRoots ==
    /\ OnlyAbc
    /\ pcAbc = "start"
    /\ fault \notin {"plugin", "scene"}
    /\ root_args # None
    /\ abc_roots' = get_toplevel_roots(GivenRoots(root_args, 1))
    /\ pcAbc' = "roots"
    /\ UNCHANGED <<abc_scene, root_args, fault, out_is_file, discovery_used, abc_export_log, main_returned>>

\* lines 190-191
DiscoverRoots ==
    /\ OnlyAbc
    /\ pcAbc = "start"
    /\ fault \notin {"plugin", "scene"}
    /\ root_args = None
    /\ abc_roots' = discover_helper_roots
    /\ discovery_used' = TRUE
    /\ pcAbc' = "roots"
    /\ UNCHANGED <<abc_scene, root_args, fault, out_is_file, abc_export_log, main_returned>>

\* lines 193-194 and 216-220
NoRootsRaises ==
    /\ OnlyAbc
    /\ pcAbc = "roots"
    /\ abc_roots = {}
    /\ main_returned' = <<1>>
    /\ pcAbc' = "returned"
    /\ UNCHANGED <<abc_scene, root_args, fault, out_is_file, abc_roots, discovery_used, abc_export_log>>

\* lines 200-201 or 145: os.makedirs raises
EnsureDirFails ==
    /\ OnlyAbc
    /\ pcAbc = "roots"
    /\ abc_roots # {}
    /\ fault = "dir"
    /\ main_returned' = <<1>>
    /\ pcAbc' = "returned"
    /\ UNCHANGED <<abc_scene, root_args, fault, out_is_file, abc_roots, discovery_used, abc_export_log>>

\* lines 205-214: cmds.AbcExport(j=job_str) returns
AbcExportDone ==
    /\ OnlyAbc
    /\ pcAbc = "roots"
    /\ abc_roots # {}
    /\ fault = "none"
    /\ abc_export_log' = Append(abc_export_log, <<abc_roots, "ok">>)
    /\ main_returned' = <<0>>
    /\ pcAbc' = "returned"
    /\ UNCHANGED <<abc_scene, root_args, fault, out_is_file, abc_roots, discovery_used>>

\* line 160 raises, lines 216-220
AbcExportRaises ==
    /\ OnlyAbc
    /\ pcAbc = "roots"
    /\ abc_roots # {}
    /\ fault = "abc"
    /\ abc_export_log' = Append(abc_export_log, <<abc_roots, "raise">>)
    /\ main_returned' = <<1>>
    /\ pcAbc' = "returned"
    /\ UNCHANGED <<abc_scene, root_args, fault, out_is_file, abc_roots, discovery_used>>

\* the values of --root: nodes of the scene or not
RootNames ==
    { <<"|", "Helper", "s">>, <<"|", "rig", "|", "loc">>,
      <<"|", "rig">>, <<"|", "missing">> }

StartAbc ==
    /\ abc_scene \in LocatorScenes
    /\ root_args \in {None} \cup UNION { [1..n -> RootNames] : n \in 1..MaxRoots }
    /\ fault \in {"none", "plugin", "scene", "dir", "abc"}
    /\ out_is_file \in BOOLEAN
    /\ abc_roots = {}
    /\ discovery_used = FALSE
    /\ abc_export_log = <<>>
    /\ main_returned = <<>>
    /\ pcAbc = "start"

IdleAbc ==
    /\ abc_scene = {}
    /\ root_args = None
    /\ fault = "none"
    /\ out_is_file = FALSE
    /\ abc_roots = {}
    /\ discovery_used = FALSE
    /\ abc_export_log = <<>>
    /\ main_returned = <<>>
    /\ pcAbc = "idle"


(***************************************************************************)
(* maya_export_geo.py                                                      *)
(***************************************************************************)
DefaultCameras ==
    { <<"|", "persp">>, <<"|", "top">>, <<"|", "front">>, <<"|", "side">> }

\* n.startswith("|__")
IsSystemNode(n) == Len(n) >= 3 /\ SubSeq(n, 1, 3) = <<"|", "_", "_">>

RECURSIVE TopOfSelection(_, _, _)
\* lines 41-46: the first segment of every selected node, once
TopOfSelection(sel, k, top) ==
    IF k > Len(sel) THEN top
    ELSE LET full == <<"|">> \o Split(sel[k], "|")[2]
         IN  TopOfSelection(sel, k + 1,
                 IF \E j \in 1..Len(top) : top[j] = full THEN top ELSE Append(top, full))

\* sel is cmds.ls(sl=True, ...), all_top is cmds.ls(assemblies=True, long=True)
get_top_roots_from_selection_or_scene(sel, all_top) ==
    IF sel = <<>>
    THEN SelectSeq(all_top, LAMBDA n : ~IsSystemNode(n) /\ n \notin DefaultCameras)
    ELSE TopOfSelection(sel, 1, <<>>)

\* the script ends with status 0 whatever export_alembic returned
exit_always_zero(ok) == 0

\* line 142: 0 if ok else 1
exit_status_of(ok) == IF ok THEN 0 ELSE 1

\* lines 124, 131, 133 or 76: an exception nothing catches leaves main
\* through its finally; the interpreter ends with status 1
GeoSetupRaises ==
    /\ OnlyGeo
    /\ pcGeo = "start"
    /\ geo_fault \in {"dir", "plugin", "scene"}
    /\ exit_status' = <<1>>
    /\ pcGeo' = "exited"
    /\ UNCHANGED <<geo_assemblies, geo_selection, geo_fault, geo_roots, geo_export_log>>

\* lines 122-140 and 76-79
GeoCollectRoots ==
    /\ OnlyGeo
    /\ pcGeo = "start"
    /\ geo_fault \notin {"dir", "plugin", "scene"}
    /\ geo_roots' = get_top_roots_from_selection_or_scene(geo_selection, geo_assemblies)
    /\ pcGeo' = "roots"
    /\ UNCHANGED <<geo_assemblies, geo_selection, geo_fault, geo_export_log, exit_status>>

\* lines 80-82 and 141-142
GeoNothingToExport ==
    /\ OnlyGeo
    /\ pcGeo = "roots"
    /\ geo_roots = <<>>
    /\ exit_status' = <<exit_status_of(FALSE)>>
    /\ pcGeo' = "exited"
    /\ UNCHANGED <<geo_assemblies, geo_selection, geo_fault, geo_roots, geo_export_log>>

\* lines 104-108 and 141-142
GeoExportDone ==
    /\ OnlyGeo
    /\ pcGeo = "roots"
    /\ geo_roots # <<>>
    /\ geo_fault = "none"
    /\ geo_export_log' = Append(geo_export_log, <<geo_roots, "ok">>)
    /\ exit_status' = <<exit_status_of(TRUE)>>
    /\ pcGeo' = "exited"
    /\ UNCHANGED <<geo_assemblies, geo_selection, geo_fault, geo_roots>>

\* lines 106, 109-111 and 141-142
GeoExportRaises ==
    /\ OnlyGeo
    /\ pcGeo = "roots"
    /\ geo_roots # <<>>
    /\ geo_fault = "abc"
    /\ geo_export_log' = Append(geo_export_log, <<geo_roots, "raise">>)
    /\ exit_status' = <<exit_status_of(FALSE)>>
    /\ pcGeo' = "exited"
    /\ UNCHANGED <<geo_assemblies, geo_selection, geo_fault, geo_roots>>

\* the top-level nodes a scene may hold and the nodes a selection may hold
AssemblyDags ==
    { <<"|", "persp">>, <<"|", "_", "_", "s">>, <<"|", "a">>, <<"|", "b">> }

SelectableDags ==
    { <<"|", "a">>, <<"|", "a", "|", "c">>, <<"|", "b", "|", "c">> }

\* the lists of at most MaxRoots different members of S
ListsOf(S) ==
    { l \in UNION { [1..n -> S] : n \in 0..MaxRoots } :
        \A i, j \in 1..Len(l) : i # j => l[i] # l[j] }

StartGeo ==
    /\ geo_assemblies \in ListsOf(AssemblyDags)
    /\ geo_selection \in ListsOf(SelectableDags)
    /\ geo_fault \in {"none", "dir", "plugin", "scene", "abc"}
    /\ geo_roots = <<>>
    /\ geo_export_log = <<>>
    /\ exit_status = <<>>
    /\ pcGeo = "start"

IdleGeo ==
    /\ geo_assemblies = <<>>
    /\ geo_selection = <<>>
    /\ geo_fault = "none"
    /\ geo_roots = <<>>
    /\ geo_export_log = <<>>
    /\ exit_status = <<>>
    /\ pcGeo = "idle"


(***************************************************************************)
(* houdiniImporMedaDane.py: _norm on arbitrary strings                     *)
(***************************************************************************)
PathChars == {"|", "/", "a"}

\* None and every string of at most MaxPathLen of these characters
PathInputs == {None} \cup UNION { [1..n -> PathChars] : n \in 0..MaxPathLen }

\* p1 = _norm(p)
NormOnce ==
    /\ OnlyNorm
    /\ pcNorm = "start"
    /\ norm_out' = _norm(norm_in)
    /\ pcNorm' = "once"
    /\ UNCHANGED <<norm_in, norm_again>>

\* p2 = _norm(p1)
NormAgain ==
    /\ OnlyNorm
    /\ pcNorm = "once"
    /\ norm_again' = _norm(norm_out)
    /\ pcNorm' = "twice"
    /\ UNCHANGED <<norm_in, norm_out>>

StartNorm ==
    /\ norm_in \in PathInputs
    /\ norm_out = None
    /\ norm_again = None
    /\ pcNorm = "start"

IdleNorm ==
    /\ norm_in = None
    /\ norm_out = None
    /\ norm_again = None
    /\ pcNorm = "idle"


(***************************************************************************)
(* houdiniImporMedaDane.py: _parse_matrix16 on arbitrary values            *)
(***************************************************************************)
\* the matrices of the samples: translations and two full matrices
SampleMatrices ==
    { Translated(<<x, y, z>>) : x \in {0, 500}, y \in {0, 600}, z \in {0, 700} }
    \cup { Counting, StartB }

\* the four forms of a matrix the function accepts
MatrixForms(m) ==
    { NumList(m), RowsOf(m), JStr(NumList(m)), JStr(RowsOf(m)) }

\* 4 rows of 4 numbers spelled as strings
StringRows ==
    JList([r \in 1..4 |-> JList([c \in 1..4 |-> JStr(JNum(identity_matrix[4 * (r - 1) + c]))])])

\* values of other shapes
OtherValues ==
    { JNull, JMissing, JNum(500), JInt(16), JBool(TRUE), JDict,
      JStr(JInvalid), JStr(JNum(500)), JStr(JDict), JStr(JNull),
      JList(<<>>), NumList(<<One, 0, 0>>), NumList(SubSeq(Counting, 1, 15)),
      NumList(Counting \o <<One>>),
      JList([k \in 1..16 |-> IF k = 14 THEN JNull ELSE JNum(Counting[k])]),
      JList(SubSeq(RowsOf(Counting).v, 1, 3)),
      JList([r \in 1..4 |-> NumList(<<One, 0, 0>>)]),
      JList(<<NumList(<<One, 0, 0, 0>>), NumList(<<0, One, 0, 0>>),
              NumList(<<0, 0, One, 0>>), JNum(One)>>),
      BrokenRows, JStr(BrokenRows), StringRows }

\* result = _parse_matrix16(val)
ParseValue ==
    /\ OnlyParse
    /\ pcParse = "start"
    /\ parse_out' = _parse_matrix16(parse_in)
    /\ pcParse' = "done"
    /\ UNCHANGED parse_in

StartParse ==
    /\ parse_in \in OtherValues \cup UNION { MatrixForms(m) : m \in SampleMatrices }
    /\ parse_out = NotParsed
    /\ pcParse = "start"

IdleParse ==
    /\ parse_in = JNull
    /\ parse_out = NotParsed
    /\ pcParse = "idle"

(***************************************************************************)
(* Specifications: one per script, the other scripts idle                  *)
(***************************************************************************)
InitMatch == StartMatch /\ IdlePts /\ IdleExt /\ IdleFin /\ IdleImp /\ IdleMeta /\ IdleHlp /\ IdleAbc /\ IdleGeo /\ IdleNorm /\ IdleParse

NextMatch == MetaExport \/ LoadRecords \/ Lookup

SpecMatch == InitMatch /\ [][NextMatch]_vars

InitPts == StartPts /\ IdleMatch /\ IdleExt /\ IdleFin /\ IdleImp /\ IdleMeta /\ IdleHlp /\ IdleAbc /\ IdleGeo /\ IdleNorm /\ IdleParse

NextPts == ExportFinalHelpers \/ StartImport \/ ImportHelper \/ FinishImport

SpecPts == InitPts /\ [][NextPts]_vars

InitExt == StartExt /\ IdleMatch /\ IdlePts /\ IdleFin /\ IdleImp /\ IdleMeta /\ IdleHlp /\ IdleAbc /\ IdleGeo /\ IdleNorm /\ IdleParse

NextExt ==
    OpenScene \/ UsdDirect \/ UsdStageDir \/ UsdStaged \/ CopyAttempt
    \/ ExportFbx \/ ExportAbc

SpecExt == InitExt /\ [][NextExt]_vars

InitFin == StartFin /\ IdleMatch /\ IdlePts /\ IdleExt /\ IdleImp /\ IdleMeta /\ IdleHlp /\ IdleAbc /\ IdleGeo /\ IdleNorm /\ IdleParse

NextFin == Prepare \/ ExportUsdFile \/ WriteAttrs \/ WriteHelpers

SpecFin == InitFin /\ [][NextFin]_vars

InitImp == StartImp /\ IdleMatch /\ IdlePts /\ IdleExt /\ IdleFin /\ IdleMeta /\ IdleHlp /\ IdleAbc /\ IdleGeo /\ IdleNorm /\ IdleParse

NextImp == LoadHelpers \/ ProcessEntry \/ FinishHelpers

SpecImp == InitImp /\ [][NextImp]_vars

InitMeta == StartMeta /\ IdleMatch /\ IdlePts /\ IdleExt /\ IdleFin /\ IdleImp /\ IdleHlp /\ IdleAbc /\ IdleGeo /\ IdleNorm /\ IdleParse

NextMeta == LoadJson \/ ResetAttribs \/ SkipPrim \/ ApplyRecord \/ ApplyRaises \/ FinishMeta

SpecMeta == InitMeta /\ [][NextMeta]_vars


InitHlp == StartHlp /\ IdleMatch /\ IdlePts /\ IdleExt /\ IdleFin /\ IdleImp /\ IdleMeta /\ IdleAbc /\ IdleGeo /\ IdleNorm /\ IdleParse

NextHlp ==
    \/ OpenHelperSceneFails \/ FindRoots \/ NextRoot \/ SkipSeenNode
    \/ AppendHelper \/ SkipUnreadable \/ RootDone \/ DumpHelpers

SpecHlp == InitHlp /\ [][NextHlp]_vars

InitAbc == StartAbc /\ IdleMatch /\ IdlePts /\ IdleExt /\ IdleFin /\ IdleImp /\ IdleMeta /\ IdleHlp /\ IdleGeo /\ IdleNorm /\ IdleParse

NextAbc ==
    \/ LoadOrOpenFails \/ ResolveGivenRoots \/ DiscoverRoots \/ NoRootsRaises
    \/ EnsureDirFails \/ AbcExportDone \/ AbcExportRaises

SpecAbc == InitAbc /\ [][NextAbc]_vars

InitGeo == StartGeo /\ IdleMatch /\ IdlePts /\ IdleExt /\ IdleFin /\ IdleImp /\ IdleMeta /\ IdleHlp /\ IdleAbc /\ IdleNorm /\ IdleParse

NextGeo ==
    \/ GeoSetupRaises \/ GeoCollectRoots \/ GeoNothingToExport
    \/ GeoExportDone \/ GeoExportRaises

SpecGeo == InitGeo /\ [][NextGeo]_vars

InitNorm == StartNorm /\ IdleMatch /\ IdlePts /\ IdleExt /\ IdleFin /\ IdleImp /\ IdleMeta /\ IdleHlp /\ IdleAbc /\ IdleGeo /\ IdleParse

NextNorm == NormOnce \/ NormAgain

SpecNorm == InitNorm /\ [][NextNorm]_vars

InitParse == StartParse /\ IdleMatch /\ IdlePts /\ IdleExt /\ IdleFin /\ IdleImp /\ IdleMeta /\ IdleHlp /\ IdleAbc /\ IdleGeo /\ IdleNorm

NextParse == ParseValue

SpecParse == InitParse /\ [][NextParse]_vars

(***************************************************************************)
(* Claims on path matching                                                 *)
(***************************************************************************)
\* the DAG paths record i was written for: its transform and its shape
RecordDags(i) == { ParentDag(all_meshes[i]), all_meshes[i] }

\* C1 (as stated): every primitive one of whose attributes path, shape_path,
\* xform_path spells the transform or shape path of a record is matched to
\* that record.
C1_AnyAttrMatches ==
    pcMatch = "done" =>
        \A i \in 1..Len(meshes), a \in 1..3 :
            (\E d \in RecordDags(i) : prim[a] \in Spellings(d)) => matched = i

\* C1 (amended): a primitive attribute that spells the transform or shape
\* path of a record matches the primitive to that record when no attribute
\* consulted before it (order path, shape_path, xform_path) spells a path of
\* the scene and no later record of the file carries the same path.
C1_FirstKeyLastRecord ==
    pcMatch = "done" =>
        \A i \in 1..Len(meshes), a \in 1..3 :
            \A d \in RecordDags(i) :
                ( /\ prim[a] \in Spellings(d)
                  /\ \A b \in 1..(a - 1) :
                        \A n \in SceneNodes : prim[b] \notin Spellings(n)
                  /\ \A j \in (i + 1)..Len(meshes) : d \notin RecordDags(j) )
                => matched = i

\* Two meshes under one transform; the primitive names the transform in its
\* xform_path with '|' separators and a trailing separator, its path names
\* a node outside the file: it gets the later of the two records.
C1_Witness ==
    /\ pcMatch = "done"
    /\ Len(meshes) = 2
    /\ meshes[1].transformPathUnix = meshes[2].transformPathUnix
    /\ prim[1] \in Spellings(ForeignDag)
    /\ prim[2] = NoAttr
    /\ prim[3] = ParentDag(all_meshes[2]) \o <<"|">>
    /\ matched = 2

(***************************************************************************)
(* Claims on the helper points                                             *)
(***************************************************************************)
\* the numbers of a JSON list of numbers
NumbersOf(j) == [k \in 1..Len(j.v) |-> j.v[k].v]

\* C2: every helper entry export_final_workflow wrote (its transform the flat
\* list of 16 numbers cmds.xform returned) is imported as a point placed at
\* the helper's world translation and carrying the helper's matrix.
C2_ExportedHelpersImported ==
    (pcPts = "done" /\ scene # <<>>) =>
        \A i \in 1..Len(helpers_json.v) :
            LET m == NumbersOf(helpers_json.v[i].transform)
            IN  /\ i <= Len(points)
                /\ points[i].P = <<m[13], m[14], m[15]>>
                /\ points[i].transform = m

\* C10: one point per entry of the JSON list, in list order, also for entries
\* whose transform is missing or cannot be converted (those stay at the origin
\* with the identity transform); points present before the run are gone.
C10_OnePointPerEntry ==
    pcPts = "done" =>
        /\ Len(points) = Len(helpers_json.v)
        /\ \A i \in 1..Len(points) :
              LET e == helpers_json.v[i]
              IN  /\ points[i].path = e.path
                  /\ points[i].type = e.type
                  /\ points[i].hasMesh = (IF e.hasMesh THEN 1 ELSE 0)
                  /\ (~Truthy(e.transform) \/ ~ToMatrix4(e.transform).ok)
                        => /\ points[i].P = Origin
                           /\ points[i].transform = identity_matrix

\* a two-entry file: the first entry has no transform, the second a flat list
\* of 16 numbers (not a list of rows); a third, converted, entry is a 4x4
C10_Witness ==
    /\ pcPts = "done"
    /\ scene = <<>>
    /\ Len(points) = 2
    /\ helpers_json.v[1].transform = JMissing
    /\ helpers_json.v[2].transform = NumList(Counting)
    /\ points[2].P = Origin
    /\ points[2].transform = identity_matrix

(***************************************************************************)
(* Claims on the batch exporter                                            *)
(***************************************************************************)
Made(what, o) == \E k \in 1..Len(calls) : calls[k] = <<what, o>>

Calls(what) == { k \in 1..Len(calls) : calls[k][1] = what }

\* C3: the staged export is attempted only after the direct export raised, the
\* copy only after the staged export succeeded; after a successful direct
\* export exactly one export call was made and nothing is copied.
C3_StagingOnlyAfterDirectFailure ==
    /\ \A k \in Calls("usd_staged") :
          \E j \in 1..(k - 1) : calls[j] = <<"usd_direct", "raise">>
    /\ \A k \in Calls("copy") :
          \E j \in 1..(k - 1) : calls[j] = <<"usd_staged", "ok">>
    /\ Made("usd_direct", "ok") =>
          /\ Cardinality(Calls("usd_direct") \cup Calls("usd_staged")) = 1
          /\ Calls("copy") = {}

\* direct export raised, staged export succeeded, the copy succeeded at the
\* second attempt, and main went on to FBX
C3_Witness ==
    /\ Made("usd_direct", "raise")
    /\ Made("usd_staged", "ok")
    /\ Made("copy", "raise")
    /\ Made("copy", "ok")
    /\ pcExt = "fbx"

\* the exporter a call belongs to: 1 USD, 2 FBX, 3 Alembic
Exporter(what) ==
    CASE what \in {"export_usd", "usd_direct", "stage_dir", "usd_staged", "copy"} -> 1
      [] what \in {"export_fbx", "fbx"} -> 2
      [] what \in {"export_abc", "AbcExport"} -> 3
      [] OTHER -> 0

Did(what, o) == \E k \in 1..Len(steps) : steps[k] = <<what, o>>

JsonFiles == { attrs_json_path(base_file_path), helpers_json_path(base_file_path) }

\* C5: the two JSON files are written only after the USD export completed
\* without exception; when the USD export raised neither is written; when
\* the function ran to its end the files written are exactly <base>.usd,
\* <base>_attrs.json and <base>_helpers.json of the one base path.
C5_JsonOnlyAfterUsd ==
    /\ \A k \in 1..Len(steps) :
          steps[k][1] \in {"write_attrs", "write_helpers"}
              => \E j \in 1..(k - 1) : steps[j] = <<"mayaUSDExport", "ok">>
    /\ files \cap JsonFiles # {} => usd_path(base_file_path) \in files
    /\ Did("mayaUSDExport", "raise") => files \cap JsonFiles = {}
    /\ pcFin = "done" =>
          files = { usd_path(base_file_path), attrs_json_path(base_file_path),
                    helpers_json_path(base_file_path) }

\* a run that made the output folder and wrote the three files
C5_Witness ==
    /\ pcFin = "done"
    /\ Did("makedirs", "ok")
    /\ Cardinality(files) = 3
    /\ usd_path(<<"p", "/", "y">>) \in files

(***************************************************************************)
(* Claims on the helper importer                                           *)
(***************************************************************************)
\* C8: matrix_list_to_hou_matrix4 multiplies exactly rows[3][0], rows[3][1],
\* rows[3][2] by unit_scale, leaves the other 13 entries as they were passed
\* in, and does not modify the list passed in.  Stated on the entry just
\* processed: its matrix in the file is the argument, the leaf's world
\* transform the result, its matrix in data the argument after the call.
C8_ScalesTranslationOnly ==
    (pcImp = "loop" /\ iImp > 1 /\ (iImp - 1) \in okIdx) =>
        LET i == iImp - 1
            m == json_text[i].matrix
            W == nodes[PathParts(json_text[i].path)].world
        IN  /\ \A r \in 1..4, c \in 1..4 :
                  W[4 * (r - 1) + c] =
                      IF r = 4 /\ c <= 3 THEN (m.v[r].v[c].v * unit_scale) \div SCALE_DEN
                                         ELSE m.v[r].v[c].v
            /\ data[i].matrix = m

\* the matrix with 16 different entries, converted with unit_scale 0.5
C8_Witness ==
    /\ pcImp = "loop"
    /\ iImp = 2
    /\ 1 \in okIdx
    /\ unit_scale = 50
    /\ json_text[1].matrix = RowsOf(Counting)
    /\ nodes[PathParts(json_text[1].path)].world[13] = 650
    /\ nodes[PathParts(json_text[1].path)].world[16] = 1600

\* C9: after import_helpers, the leaf of every path of a successfully
\* processed entry shows the last such entry: hex and green when it has
\* hasMesh, circle and blue otherwise, geoscale 0.1, helper_type its type.
C9_LeafShowsLastOkEntry ==
    pcImp = "done" =>
        \A i \in okIdx :
            (\A j \in okIdx :
                j > i => PathParts(data[j].path) # PathParts(data[i].path))
            => LET n == nodes[PathParts(data[i].path)]
               IN  /\ n.controltype = (IF data[i].hasMesh THEN 7 ELSE 1)
                   /\ n.color = (IF data[i].hasMesh THEN Green ELSE Blue)
                   /\ n.geoscale = 10
                   /\ n.helper_type = OrEmpty(data[i].type)

\* the matrix the importer reads for an attribute of a record: worldMatrix at
\* the top level, LEGO_startPosition where lines 102-109 look it up
RawMatrix(rec, name) ==
    IF name = "worldMatrix" THEN rec.worldMatrix ELSE start_raw(rec)

MatrixNames == {"worldMatrix", "LEGO_startPosition"}

\* C6: after a run of houdiniImporMedaDane the primitive attributes
\* worldMatrix and LEGO_startPosition exist as 16 floats, and on every
\* primitive that matched no record, or whose record holds no parsable
\* matrix, all 16 components are 0.0, whatever the attributes were before.
C6_UnmatchedMatricesAreZero ==
    pcMeta \in {"done", "raised"} =>
        \A name \in MatrixNames :
            /\ name \in DOMAIN attribs
            /\ attribs[name].type = "float16"
            /\ Len(attribs[name].default) = 16
            /\ \A i \in 1..Len(prims) :
                   (\/ RecOfPrim(i) = 0
                    \/ _parse_matrix16(RawMatrix(records[RecOfPrim(i)], name)).k # "tuple")
                   => /\ Len(prims[i].vals[name]) = 16
                      /\ \A k \in 1..16 : prims[i].vals[name][k] = 0

\* a run over a geometry that arrived with worldMatrix as an integer
\* attribute, with one primitive that matched nothing and one whose record
\* holds a worldMatrix that does not parse
C6_Witness ==
    /\ pcMeta = "done"
    /\ "worldMatrix" \in DOMAIN input_geo.attribs
    /\ input_geo.attribs["worldMatrix"].type = "int"
    /\ \E i \in 1..Len(prims) : RecOfPrim(i) = 0
    /\ \E i \in 1..Len(prims) :
           /\ RecOfPrim(i) # 0
           /\ _parse_matrix16(records[RecOfPrim(i)].worldMatrix).k = "none"

\* C7: for a matched record with a parsable worldMatrix (LEGO_startPosition)
\* the attribute holds the 16 values unscaled and <name>_translation holds
\* elements 12, 13, 14 of the flat matrix times 0.01; bbox_min and bbox_max
\* are the record's bbox min and max times 0.01.
C7_MatchedValuesStored ==
    pcMeta \in {"done", "raised"} =>
        \A i \in 1..Len(prims) :
            RecOfPrim(i) # 0 =>
                LET rec == records[RecOfPrim(i)]
                    vmin == _to_vec3(rec.bbox.min)
                    vmax == _to_vec3(rec.bbox.max)
                IN  /\ \A name \in MatrixNames :
                           LET m16 == _parse_matrix16(RawMatrix(rec, name))
                           IN  m16.k = "tuple" =>
                                   /\ prims[i].vals[name] = m16.M
                                   /\ prims[i].vals[name \o "_translation"]
                                        = << m16.M[13] \div 100, m16.M[14] \div 100,
                                             m16.M[15] \div 100 >>
                    /\ vmin.k = "tuple" =>
                           prims[i].vals["bbox_min"] = [k \in 1..3 |-> vmin.M[k] \div 100]
                    /\ vmax.k = "tuple" =>
                           prims[i].vals["bbox_max"] = [k \in 1..3 |-> vmax.M[k] \div 100]

(***************************************************************************)
(* Claims on maya_export_helpers                                           *)
(***************************************************************************)
\* the names on the path of an entry, from the top
EntryNames(e) == NonEmptyParts(Split(e.path, "/"))

\* the transform of the scene an entry was made of
EntryNode(e) == <<"|">> \o Join(EntryNames(e), "|")

AbcCompleted == \E k \in 1..Len(abc_export_log) : abc_export_log[k][2] = "ok"

\* C12: main returns 0 exactly when AbcExport was invoked and completed
\* without exception and 1 in every other case; with no root resolved
\* AbcExport is never invoked, and with --root given discovery is never used.
C12_ReturnCodes ==
    /\ pcAbc = "returned" =>
           /\ main_returned \in {<<0>>, <<1>>}
           /\ main_returned = <<0>> <=> AbcCompleted
    /\ pcAbc \in {"roots", "returned"} /\ abc_roots = {} => abc_export_log = <<>>
    /\ abc_export_log # <<>> => \A k \in 1..Len(abc_export_log) : abc_export_log[k][1] # {}
    /\ root_args # None => ~discovery_used
    /\ root_args # None /\ (\A k \in 1..Len(root_args) : root_args[k] \notin abc_scene)
           => abc_export_log = <<>>

\* main returned 1 with --root naming only missing nodes, in a scene where
\* discovery would have found locators
C12_Witness ==
    /\ pcAbc = "returned"
    /\ main_returned = <<1>>
    /\ root_args # None
    /\ \A k \in 1..Len(root_args) : root_args[k] \notin abc_scene
    /\ fault = "none"
    /\ discover_helper_roots # {}

(***************************************************************************)
(* Claims on maya_export_geo                                               *)
(***************************************************************************)
\* C13: maya_export_geo.main exits with status 0 exactly when AbcExport
\* completed without exception, and with status 1 when there were no roots
\* to export or the export raised; with no roots AbcExport is never invoked.
C13_ExitStatus ==
    /\ pcGeo = "exited" =>
           /\ exit_status = <<0>>
                 <=> \E k \in 1..Len(geo_export_log) : geo_export_log[k][2] = "ok"
           /\ (geo_fault \in {"none", "abc"} /\ geo_roots = <<>>)
                 => exit_status = <<1>>
           /\ (\E k \in 1..Len(geo_export_log) : geo_export_log[k][2] = "raise")
                 => exit_status = <<1>>
    /\ pcGeo \in {"roots", "exited"} /\ geo_roots = <<>> => geo_export_log = <<>>

\* a run that found only cameras and system nodes among the top-level nodes
\* and left with status 1 without calling AbcExport
C13_Witness ==
    /\ pcGeo = "exited"
    /\ exit_status = <<1>>
    /\ geo_fault = "none"
    /\ geo_selection = <<>>
    /\ Len(geo_assemblies) >= 2
    /\ geo_export_log = <<>>

(***************************************************************************)
(* Claims on _norm and _parse_matrix16                                     *)
(***************************************************************************)
\* C14: _norm returns a string without '|', without '//' and without a
\* trailing '/', the empty string for an empty or None input, and is
\* idempotent: _norm(_norm(p)) = _norm(p).
C14_NormIsNormalForm ==
    /\ pcNorm \in {"once", "twice"} =>
           /\ \A k \in 1..Len(norm_out) : norm_out[k] # "|"
           /\ \A k \in 1..(Len(norm_out) - 1) : ~(norm_out[k] = "/" /\ norm_out[k + 1] = "/")
           /\ norm_out # <<>> => norm_out[Len(norm_out)] # "/"
           /\ (norm_in = None \/ norm_in = <<>>) => norm_out = <<>>
    /\ pcNorm = "twice" => norm_again = norm_out

\* a path with '|', a run of three separators and a trailing separator,
\* normalised twice
C14_Witness ==
    /\ pcNorm = "twice"
    /\ norm_in = <<"|", "/", "/", "a", "/">> \/ norm_in = <<"/", "|", "/", "a">>
    /\ norm_out = <<"/", "a">>

\* a list of 16 numbers
IsFlatMatrix(j) ==
    j.t = "list" /\ Len(j.v) = 16 /\ \A k \in 1..16 : j.v[k].t \in {"num", "int"}

\* a list of 4 rows of 4 numbers
IsRowMatrix(j) ==
    /\ j.t = "list" /\ Len(j.v) = 4
    /\ \A r \in 1..4 : /\ j.v[r].t = "list" /\ Len(j.v[r].v) = 4
                       /\ \A c \in 1..4 : j.v[r].v[c].t \in {"num", "int"}

\* the 16 numbers of a matrix in either form, row-major:
\* result[4*i+j] = rows[i][j]
RowMajor(j) ==
    IF IsFlatMatrix(j) THEN [k \in 1..16 |-> j.v[k].v]
    ELSE [k \in 1..16 |-> j.v[((k - 1) \div 4) + 1].v[((k - 1) % 4) + 1].v]

\* the matrix a value spells, directly or as a JSON string
Spelled(j) == IF j.t = "str" THEN j.loads ELSE j

\* C15: _parse_matrix16 maps a flat list of 16 numbers, the 4x4 list of rows
\* of the same matrix, and the JSON string form of either to the same
\* 16-tuple in row-major order, and returns None for a value of any other
\* shape.
C15_ParsesMatricesElseNone ==
    pcParse = "done" =>
        IF IsFlatMatrix(Spelled(parse_in)) \/ IsRowMatrix(Spelled(parse_in))
        THEN /\ parse_out.k = "tuple"
             /\ parse_out.M = RowMajor(Spelled(parse_in))
        ELSE parse_out.k = "none"

====
